---- MODULE Spec2Model ----
(***************************************************************************)
(* CClassifierPyTorch (secml): the trainable-model adapter and its         *)
(* training / checkpoint / inference / gradient protocol, as a state       *)
(* machine.  The tensor engine is abstract: an optimizer step replaces the *)
(* parameter values by some member of ParamSet; an epoch's average         *)
(* accuracy is some member of 0..MaxAcc.                                   *)
(***************************************************************************)
EXTENDS Integers, Sequences, FiniteSets, TLC

VARIABLES
    clf,              \* the adapter under test (a CClassifierPyTorch object)
    clf2,             \* a second adapter object held by the caller, or None
    pc,               \* position of the single thread of control
    store_best_params,\* _fit argument of the running fit call
    epoch_it,         \* next value of the xrange iterator of the epoch loop
    batch_idx,        \* number of batches already consumed in the epoch
    best_epoch,       \* _fit local
    best_state_dict,  \* _fit local
    loader,           \* ds_loader of the running fit call: its worker count
                      \* and the batches its workers hold ready
    ret,              \* the last call: operation, arguments, outcome
    entry,            \* the adapter as it was when the running _fit was entered
    obs,              \* what the running fit call has let an observer see
    trained,          \* a fit that ran an epoch, or a load_state, has returned
                      \* normally on clf
    solver            \* a COptimizer object (None where none has been built)

\* The locals of the running fit call and what its observer holds.
fit_locals == <<store_best_params, epoch_it, batch_idx, best_epoch,
                best_state_dict, loader, entry, obs>>

vars == <<clf, clf2, pc, fit_locals, ret, trained, solver>>

----------------------------------------------------------------------------
\* Bounds of the model.
MaxEpochs == 2
MaxAcc == 1
MaxBatch == 2
NTrain == 3
MaxRows == 3
MaxJobs == 3
MaxItems == 2
MaxTrips == 2
MaxEval == 4

\* Python's None and a value that is not None.
None == {}
Some(v) == {v}
Val(o) == CHOOSE v \in o : TRUE

Max(a, b) == IF a >= b THEN a ELSE b

----------------------------------------------------------------------------
\* The tensor engine: linear modules on integer tensors.  A tensor is its
\* shape and its vectors along the last dimension, in row-major order.

Dot(u, v) == LET S[i \in 0..Len(u)] == IF i = 0 THEN 0 ELSE S[i-1] + u[i] * v[i]
             IN S[Len(u)]

\* torch.nn.Linear on one vector: y = W x + b
Linear(m, v) == [k \in 1..Len(m.weight) |-> Dot(m.weight[k], v) + m.bias[k]]

relu(v) == [k \in 1..Len(v) |-> Max(v[k], 0)]

\* A module applied to a tensor: along the last dimension.
apply_module(m, t) ==
    [shape |-> [t.shape EXCEPT ![Len(t.shape)] = Len(m.weight)],
     data |-> [i \in 1..Len(t.data) |-> Linear(m, t.data[i])]]

relu_tensor(t) == [t EXCEPT !.data = [i \in 1..Len(t.data) |-> relu(t.data[i])]]

\* Net.forward of the test network: fc2(relu(fc1(x))), relu after every
\* module but the last.
Net_forward(P, t) ==
    LET F[i \in 0..Len(P)] ==
            IF i = 0 THEN t
            ELSE IF i = Len(P) THEN apply_module(P[i], F[i-1])
            ELSE relu_tensor(apply_module(P[i], F[i-1]))
    IN F[Len(P)]

\* tensor.squeeze(1) and tensor.unsqueeze(0)
squeeze1(t) ==
    IF Len(t.shape) >= 2 /\ t.shape[2] = 1
        THEN [t EXCEPT !.shape = <<t.shape[1]>> \o SubSeq(t.shape, 3, Len(t.shape))]
        ELSE t
unsqueeze0(t) == [t EXCEPT !.shape = <<1>> \o t.shape]

\* Parameter values an initialisation or an optimizer step may produce
\* (modules fc1 : 2 -> 2 and fc2 : 2 -> 2 of Net).
Params(w1, b1, w2, b2) ==
    << [name |-> "fc1", weight |-> w1, bias |-> b1],
       [name |-> "fc2", weight |-> w2, bias |-> b2] >>

ParamSet ==
    { Params(<< <<1, 0>>, <<0, 1>> >>, <<0, 0>>, << <<1, 0>>, <<0, 1>> >>, <<0, 0>>),
      Params(<< <<1, -1>>, <<2, 1>> >>, <<-1, 0>>, << <<1, 1>>, <<-1, 2>> >>, <<1, 0>>) }

\* A network of one linear module (2 -> 2), its weight matrix not symmetric.
LinearSet ==
    { << [name |-> "fc1", weight |-> << <<1, 2>>, <<3, -1>> >>, bias |-> <<1, 0>>] >> }

----------------------------------------------------------------------------
\* Construction arguments shared by the adapters of the model.
\* lr_schedule: the milestone epochs of MultiStepLR.
lr_schedule == <<1>>
\* The known input shape (C x F) and the dataset the adapter is trained on.
KnownShape == <<1, 2>>
\* Another shape the same samples can take (F).
FlatShape == <<2>>
dataset == [classes |-> {0, 1}, num_features |-> 2]
Shapes == {None, Some(KnownShape)}
AnyShapes == Shapes \cup {Some(FlatShape)}
\* Values the learning rate and the momentum are set to, and the weight decays.
Rates == 1..2
Decays == 0..1
\* Loss identifiers: the two that loss() knows and one that it does not.
LossIds == {"cross-entropy", "mse", "hinge"}

Sum(t) == LET S[i \in 0..Len(t)] == IF i = 0 THEN 0 ELSE S[i-1] + t[i]
          IN S[Len(t)]

----------------------------------------------------------------------------
\* The optimizer handle (torch.optim.SGD) and its parameter grouping.

\* Every parameter in one group, with the optimizer's defaults.
parameters(self) ==
    << [params |-> {"weight", "bias"}, weight_decay |-> self.weight_decay] >>

\* add_weight_decay: biases in a group of their own, without weight decay.
add_weight_decay(self) ==
    << [params |-> {"bias"}, weight_decay |-> 0],
       [params |-> {"weight"}, weight_decay |-> self.weight_decay] >>

\* optim.SGD(params, lr, momentum, weight_decay): every group takes the
\* defaults it does not set itself; no momentum buffer exists yet.  The
\* learning rate of a group is a base rate decayed by gamma some times; a
\* group holds an initial_lr once a scheduler has been attached to it.
SGD(params, lr, momentum, weight_decay) ==
    [ defaults |-> [lr |-> lr, momentum |-> momentum, weight_decay |-> weight_decay],
      param_groups |-> [g \in 1..Len(params) |->
          [params |-> params[g].params, weight_decay |-> params[g].weight_decay,
           momentum |-> momentum, lr |-> [base |-> lr, decays |-> 0],
           initial_lr |-> None]],
      state |-> 0 ]

init_optimizer(self) ==
    [self EXCEPT !.optimizer =
        SGD(IF self.weight_decay # 0 /\ self.regularize_bias = FALSE
                THEN add_weight_decay(self) ELSE parameters(self),
            self.learning_rate, self.momentum, self.weight_decay)]

\* init_model: a new model handle whose parameter values are p, in training
\* mode as torch builds it.
init_model(self, p) == [self EXCEPT !.model = p, !.training = TRUE]

\* CClassifierPyTorch.__init__ with its optimizer and loss arguments given.
Construct(p, epochs, batch_size, input_shape, softmax_outputs, weight_decay, regularize_bias, loss) ==
    init_optimizer(
      [ model |-> p, training |-> TRUE, optimizer |-> None,
        learning_rate |-> 1, momentum |-> 1, weight_decay |-> weight_decay,
        loss_id |-> loss, epochs |-> epochs,
        batch_size |-> batch_size, regularize_bias |-> regularize_bias,
        input_shape |-> input_shape, softmax_outputs |-> softmax_outputs,
        start_epoch |-> 0, acc |-> 0, best_acc |-> 0,
        classes |-> None, n_features |-> None, own_handles |-> TRUE ])

\* CClassifierPyTorch.__init__ with weight decay on every parameter and the
\* default loss.
New(p, epochs, batch_size, input_shape, softmax_outputs) ==
    Construct(p, epochs, batch_size, input_shape, softmax_outputs, 1, TRUE,
              "cross-entropy")

\* CClassifier.clear / is_clear: the trained-state attributes of the base class.
clear(self) == [self EXCEPT !.classes = None, !.n_features = None]
is_clear(self) == self.classes = None /\ self.n_features = None

----------------------------------------------------------------------------
\* Checkpoints.

\* A record that counts the epoch downwards.
saved_epoch_before(self) == self.start_epoch - 1

\* state_dict, line 526: the epoch the record resumes at.
saved_epoch(self) == self.start_epoch + 1

\* state_dict, lines 518-541.
state_dict(self) ==
    [ optimizer |-> [ state |-> self.optimizer.state,
                      param_groups |-> self.optimizer.param_groups,
                      defaults |-> self.optimizer.defaults,
                      regularize_bias |-> self.regularize_bias ],
      state_dict |-> self.model,
      epoch |-> saved_epoch(self),
      acc |-> self.acc,
      best_acc |-> self.best_acc,
      input_shape |-> self.input_shape ]

\* dict.get(key, default)
get(d, key, default) == IF key \in DOMAIN d THEN d[key] ELSE default

\* torch Optimizer.load_state_dict: refuses a state whose groups do not match
\* the groups of the optimizer it is loaded into.
groups_match(opt, sd) ==
    /\ Len(opt.param_groups) = Len(sd.param_groups)
    /\ \A g \in 1..Len(opt.param_groups) :
          Cardinality(opt.param_groups[g].params) = Cardinality(sd.param_groups[g].params)

optimizer_load_state_dict(opt, sd) ==
    [opt EXCEPT !.state = sd.state,
                !.param_groups = [g \in 1..Len(opt.param_groups) |->
                    [sd.param_groups[g] EXCEPT !.params = opt.param_groups[g].params]]]

\* A load that takes the record's values and keeps the optimizer it has.
load_state_hyper_keeps_optimizer(self, sd) ==
    LET s1 == IF "defaults" \in DOMAIN sd.optimizer
                THEN [self EXCEPT !.learning_rate = sd.optimizer.defaults.lr,
                                  !.momentum = sd.optimizer.defaults.momentum,
                                  !.weight_decay = sd.optimizer.defaults.weight_decay]
                ELSE self
    IN IF "regularize_bias" \in DOMAIN sd.optimizer
         THEN [s1 EXCEPT !.regularize_bias = sd.optimizer.regularize_bias]
         ELSE s1

\* load_state, lines 451-480: hyperparameters from the record, optimizer rebuilt.
load_state_hyper(self, sd) ==
    LET has_defaults == "defaults" \in DOMAIN sd.optimizer
        has_flag == "regularize_bias" \in DOMAIN sd.optimizer
        s1 == IF has_defaults
                THEN [self EXCEPT !.learning_rate = sd.optimizer.defaults.lr,
                                  !.momentum = sd.optimizer.defaults.momentum,
                                  !.weight_decay = sd.optimizer.defaults.weight_decay]
                ELSE self
        s2 == IF has_flag
                THEN [s1 EXCEPT !.regularize_bias = sd.optimizer.regularize_bias]
                ELSE s1
    IN IF has_defaults \/ has_flag THEN init_optimizer(s2) ELSE s2

\* An import that leaves the epoch counter where the loop left it.
load_state_restore_keeps_epoch(self, sd) ==
    [self EXCEPT !.optimizer = optimizer_load_state_dict(self.optimizer, sd.optimizer),
                 !.acc = get(sd, "acc", 0),
                 !.best_acc = get(sd, "best_acc", 0),
                 !.model = sd.state_dict]

\* load_state, lines 482-501: optimizer state, epoch count, accuracies, model.
load_state_restore(self, sd) ==
    [self EXCEPT !.optimizer = optimizer_load_state_dict(self.optimizer, sd.optimizer),
                 !.start_epoch = sd.epoch,
                 !.acc = get(sd, "acc", 0),
                 !.best_acc = get(sd, "best_acc", 0),
                 !.model = sd.state_dict]

\* A load that takes the shape of the record whatever the adapter knows.
load_state_shape_of_record(self, sd) ==
    [self EXCEPT !.input_shape = get(sd, "input_shape", None)]

\* load_state, lines 503-505.
load_state_shape(self, sd) ==
    IF self.input_shape = None
        THEN [self EXCEPT !.input_shape = get(sd, "input_shape", None)]
        ELSE self

\* A load that leaves the classes and the feature count as they are.
load_state_classes_kept(self) == self

\* load_state, lines 510-516: the dummy forward pass gives the class count.
load_state_classes(self) ==
    [self EXCEPT !.n_features = Some(Sum(Val(self.input_shape))),
                 !.classes = Some(0..(Len(self.model[Len(self.model)].weight) - 1))]

\* A load that logs nothing.
no_warning(sd) == {}

\* load_state, lines 466-470: the warning for a record without defaults.
no_defaults_warning(sd) ==
    IF "defaults" \in DOMAIN sd.optimizer THEN {} ELSE {"no defaults"}

\* A load that looks for the input shape before it replaces anything.
load_state_shape_first(self, sd) ==
    LET warnings == no_defaults_warning(sd)
        s1 == load_state_hyper(self, sd)
    IN IF self.input_shape = None /\ get(sd, "input_shape", None) = None
         THEN [self |-> self, status |-> "RuntimeError: input_shape", warnings |-> warnings]
       ELSE IF ~groups_match(s1.optimizer, sd.optimizer)
         THEN [self |-> s1, status |-> "ValueError: parameter groups", warnings |-> warnings]
       ELSE [self |-> load_state_classes(load_state_shape(load_state_restore(s1, sd), sd)),
             status |-> "ok", warnings |-> warnings]

\* load_state as a whole: the adapter it leaves, how it ended, what it logged.
load_state(self, sd) ==
    LET warnings == no_defaults_warning(sd)
        s1 == load_state_hyper(self, sd)
    IN IF ~groups_match(s1.optimizer, sd.optimizer)
         THEN [self |-> s1, status |-> "ValueError: parameter groups", warnings |-> warnings]
         ELSE LET s2 == load_state_shape(load_state_restore(s1, sd), sd)
              IN IF s2.input_shape = None
                   THEN [self |-> s2, status |-> "RuntimeError: input_shape",
                         warnings |-> warnings]
                   ELSE [self |-> load_state_classes(s2), status |-> "ok",
                         warnings |-> warnings]

----------------------------------------------------------------------------
\* Training: fit and the epoch loop of _fit.

\* The record of a call: operation, arguments, how it ended, what it logged,
\* what it returned.
Call(op, args, status, warnings, out) ==
    [op |-> op, args |-> args, status |-> status, warnings |-> warnings,
     trace |-> <<>>, out |-> out]

\* A loader that drops a last batch that is not full.
NumBatches_drop_last(self) == NTrain \div self.batch_size

\* len(ds_loader): the batches of one epoch, the last one possibly shorter.
NumBatches(self) == (NTrain + self.batch_size - 1) \div self.batch_size

\* A reset that leaves the optimizer as it is.
fit_reset_keeps_optimizer(self, p) ==
    [init_model([clear(self) EXCEPT !.classes = Some(dataset.classes),
                                    !.n_features = Some(dataset.num_features)], p)
       EXCEPT !.start_epoch = 0, !.best_acc = 0, !.acc = 0]

\* fit, lines 585-599: warm_start is False.
fit_reset(self, p) ==
    init_optimizer(
      [init_model([clear(self) EXCEPT !.classes = Some(dataset.classes),
                                      !.n_features = Some(dataset.num_features)], p)
         EXCEPT !.start_epoch = 0, !.best_acc = 0, !.acc = 0])

\* MultiStepLR(optimizer, lr_schedule, gamma, last_epoch): a scheduler that
\* starts (last_epoch = -1) records the initial_lr of every group; one that
\* resumes needs it to be there.
scheduler_resumable(opt, last_epoch) ==
    last_epoch = -1 \/ \A g \in 1..Len(opt.param_groups) :
                           opt.param_groups[g].initial_lr # None

scheduler_init(opt, last_epoch) ==
    IF last_epoch # -1 THEN opt
    ELSE [opt EXCEPT !.param_groups = [g \in 1..Len(opt.param_groups) |->
            [opt.param_groups[g] EXCEPT !.initial_lr =
                IF @ = None THEN Some(opt.param_groups[g].lr) ELSE @]]]

\* MultiStepLR.step at the given epoch: the initial rate decayed by gamma
\* once per milestone reached.
scheduler_step(opt, epoch) ==
    [opt EXCEPT !.param_groups = [g \in 1..Len(opt.param_groups) |->
        [opt.param_groups[g] EXCEPT !.lr =
            [base |-> Val(opt.param_groups[g].initial_lr).base,
             decays |-> Val(opt.param_groups[g].initial_lr).decays +
                 Cardinality({i \in 1..Len(lr_schedule) : lr_schedule[i] <= epoch})]]]]

\* A worker that makes the optimizer step of the batch it prepares.
prepared_and_stepped(self) == [self EXCEPT !.optimizer.state = 1 - @]

\* A loop that stores every epoch, whatever store_best_params says.
skip_epoch_never(sbp, acc, best_acc) == FALSE

\* A loop that keeps the earlier snapshot when an epoch ties the best accuracy.
skip_epoch_on_tie(sbp, acc, best_acc) == sbp /\ acc <= best_acc

\* A loop that keeps the epochs that do not improve on the best.
skip_epoch_when_better(sbp, acc, best_acc) == sbp /\ acc > best_acc

\* A loop that keeps the best epoch whatever store_best_params says.
skip_epoch_below_best(sbp, acc, best_acc) == acc < best_acc

\* _fit, line 721: the epoch is not stored.
skip_epoch(sbp, acc, best_acc) == sbp /\ acc < best_acc

\* What an observer of the epochs of a fit call has seen so far.
NoObs == [n |-> 0, steps |-> 0, sched |-> 0, ops |-> <<>>,
          max |-> None, first |-> None, last |-> None]
Observe(o, a, p) ==
    IF o.max = None \/ a > Val(o.max)
        THEN [o EXCEPT !.n = @ + 1, !.max = Some(a), !.first = Some(p), !.last = Some(p)]
    ELSE IF a = Val(o.max) THEN [o EXCEPT !.n = @ + 1, !.last = Some(p)]
    ELSE [o EXCEPT !.n = @ + 1]

\* What a returning fit call hands to its observer.
Seen(e, o, b) == Some([entry |-> Val(e), obs |-> o, best_epoch |-> b])

\* DataLoader(..., num_workers=n_jobs-1), lines 641-645: with no worker the
\* main thread prepares each batch itself when it asks for it; with workers
\* the batches of the epoch are prepared ahead, in any order of completion,
\* and delivered in order.
DataLoader(n_jobs) == [n_jobs |-> n_jobs, ready |-> {}]
NoLoader == DataLoader(1)
num_workers(dl) == dl.n_jobs - 1
delivered(dl, b) == num_workers(dl) = 0 \/ b \in dl.ready

\* The thread is back at the caller; the locals of _fit are gone.
Idle == /\ pc' = "idle"
        /\ loader' = NoLoader
        /\ store_best_params' = TRUE
        /\ epoch_it' = 0
        /\ batch_idx' = 0
        /\ best_epoch' = 0
        /\ best_state_dict' = None
        /\ entry' = None
        /\ obs' = NoObs

\* A loop that lets start_epoch = epochs through.
max_epochs_exceeded(self) == self.start_epoch > self.epochs

\* _fit, line 632: no training is performed.
max_epochs_reached(self) == self.start_epoch >= self.epochs

\* fit(dataset, warm_start, store_best_params, n_jobs) up to the first epoch;
\* p is what init_model draws when the model is reinitialised.
fit_jobs(warm_start, sbp, p, n_jobs) ==
    /\ pc = "idle"
    /\ clf2 = None
    /\ LET s0 == IF warm_start THEN clf ELSE fit_reset(clf, p)
           args == [warm_start |-> warm_start, store_best_params |-> sbp]
       IN /\ clf2' = clf2
          /\ trained' = (warm_start /\ trained)
          /\ solver' = solver
          /\ IF max_epochs_reached(s0)
               THEN /\ clf' = s0
                    /\ ret' = Call("fit", args, "ok", {"maximum number of epochs"},
                                   Seen(Some(s0), NoObs, s0.start_epoch))
                    /\ Idle
               ELSE IF ~scheduler_resumable(s0.optimizer, s0.start_epoch - 1)
               THEN /\ clf' = [s0 EXCEPT !.training = TRUE]
                    /\ ret' = Call("fit", args, "KeyError: initial_lr", {},
                                   Seen(Some(s0), NoObs, s0.start_epoch))
                    /\ Idle
               ELSE /\ clf' = [s0 EXCEPT !.training = TRUE,
                                         !.optimizer = scheduler_init(@, s0.start_epoch - 1)]
                    /\ ret' = Call("fit", args, "running", {}, None)
                    /\ entry' = Some(s0)
                    /\ obs' = NoObs
                    /\ pc' = "epoch"
                    /\ store_best_params' = sbp
                    /\ epoch_it' = s0.start_epoch
                    /\ batch_idx' = 0
                    /\ best_epoch' = s0.start_epoch
                    /\ best_state_dict' = Some(state_dict(clf'))
                    /\ loader' = DataLoader(n_jobs)

\* fit with n_jobs left at its default.
fit(warm_start, sbp, p) == fit_jobs(warm_start, sbp, p, 1)

\* _fit, lines 660-672: the loop assigns the epoch and steps the scheduler.
epoch_begin ==
    /\ pc = "epoch"
    /\ epoch_it < clf.epochs
    /\ clf' = [clf EXCEPT !.start_epoch = epoch_it,
                          !.optimizer = scheduler_step(clf.optimizer, epoch_it)]
    /\ epoch_it' = epoch_it + 1
    /\ batch_idx' = 0
    /\ loader' = [loader EXCEPT !.ready = {}]
    /\ obs' = [obs EXCEPT !.sched = @ + 1]
    /\ pc' = "batch"
    /\ UNCHANGED <<clf2, store_best_params, best_epoch, best_state_dict, ret, entry,
                   trained, solver>>

\* What a worker process of the loader leaves on the adapter of the main
\* process when it prepares a batch (CDatasetPyTorch.__getitem__): nothing.
prepared(self) == self

\* A worker of the loader prepares batch b of the running epoch ahead of the
\* main thread (at most two batches per worker are outstanding).
worker_fetch(b) ==
    /\ pc = "batch"
    /\ num_workers(loader) > 0
    /\ b \in batch_idx..(NumBatches(clf) - 1)
    /\ b \notin loader.ready
    /\ b < batch_idx + 2 * num_workers(loader)
    /\ loader' = [loader EXCEPT !.ready = @ \cup {b}]
    /\ clf' = prepared(clf)
    /\ UNCHANGED <<clf2, pc, store_best_params, epoch_it, batch_idx, best_epoch,
                   best_state_dict, ret, entry, obs, trained, solver>>

\* A loss that takes any identifier.
loss_any(self) == TRUE

\* loss, lines 402-410.
loss_supported(self) == self.loss_id \in {"cross-entropy", "mse"}

\* _fit, lines 683-690: what the main thread does with one batch, in order;
\* a loss that raises ends it.
batch_ops(loss_ok) ==
    IF loss_ok THEN <<"forward", "loss", "zero_grad", "backward", "step">>
               ELSE <<"forward", "loss">>

\* _fit, lines 674-690: one batch; p is what the optimizer step leaves.
train_batch(p) ==
    /\ pc = "batch"
    /\ batch_idx < NumBatches(clf)
    /\ delivered(loader, batch_idx)
    /\ IF loss_supported(clf)
         THEN /\ clf' = [clf EXCEPT !.model = p, !.optimizer.state = 1]
              /\ batch_idx' = batch_idx + 1
              /\ loader' = [loader EXCEPT !.ready = @ \ {batch_idx}]
              /\ obs' = [obs EXCEPT !.ops = batch_ops(TRUE),
                           !.steps = @ + Cardinality({i \in 1..Len(batch_ops(TRUE)) :
                                                        batch_ops(TRUE)[i] = "step"})]
              /\ UNCHANGED <<pc, store_best_params, epoch_it, best_epoch,
                             best_state_dict, ret>>
              /\ entry' = entry
         ELSE /\ ret' = [ret EXCEPT !.status = "ValueError: loss",
                                    !.out = Seen(entry,
                                                 [obs EXCEPT !.ops = batch_ops(FALSE)],
                                                 best_epoch)]
              /\ Idle
              /\ clf' = clf
    /\ UNCHANGED <<clf2, trained, solver>>

\* A loop that goes back to the best snapshot when an epoch is not stored.
epoch_skipped_reverts(self, a) ==
    [self EXCEPT !.acc = a, !.model = Val(best_state_dict).state_dict]

\* _fit, lines 716-722: an epoch that is not stored leaves its accuracy.
epoch_skipped(self, a) == [self EXCEPT !.acc = a]

\* _fit, lines 715-726: the epoch's accuracy a, the best epoch so far.
epoch_end(a) ==
    /\ pc = "batch"
    /\ batch_idx = NumBatches(clf)
    /\ obs' = Observe(obs, a, clf.model)
    /\ IF skip_epoch(store_best_params, a, clf.best_acc)
         THEN /\ clf' = epoch_skipped(clf, a)
              /\ UNCHANGED <<best_epoch, best_state_dict>>
         ELSE /\ clf' = [clf EXCEPT !.acc = a, !.best_acc = a]
              /\ best_epoch' = clf.start_epoch
              /\ best_state_dict' = Some(state_dict(clf'))
    /\ pc' = "epoch"
    /\ batch_idx' = 0
    /\ UNCHANGED <<clf2, store_best_params, epoch_it, loader, ret, entry, trained, solver>>

\* _fit, lines 728-737: the final state is the best (or the latest) one.
fit_end ==
    /\ pc = "epoch"
    /\ epoch_it >= clf.epochs
    /\ LET r == load_state(clf, Val(best_state_dict))
       IN /\ clf' = r.self
          /\ ret' = [ret EXCEPT !.status = r.status, !.warnings = r.warnings,
                                !.out = Seen(entry, obs, best_epoch)]
          /\ trained' = (trained \/ r.status = "ok")
          /\ solver' = solver
    /\ Idle
    /\ clf2' = clf2

\* regularize_bias setter, lines 247-250.
set_regularize_bias(value) ==
    /\ pc = "idle"
    /\ clf2 = None
    /\ clf' = [clf EXCEPT !.regularize_bias = value]
    /\ ret' = Call("regularize_bias", [value |-> value], "ok", {}, None)
    /\ UNCHANGED <<clf2, pc, fit_locals, trained, solver>>

\* Setters that recreate the optimizer, lines 161-190.
Setter(name, value, self) ==
    /\ pc = "idle"
    /\ clf2 = None
    /\ clf' = self
    /\ ret' = Call(name, [value |-> value], "ok", {}, None)
    /\ UNCHANGED <<clf2, pc, fit_locals, trained, solver>>

set_learning_rate(value) ==
    Setter("learning_rate", value, init_optimizer([clf EXCEPT !.learning_rate = value]))

set_momentum(value) ==
    Setter("momentum", value, init_optimizer([clf EXCEPT !.momentum = value]))

set_weight_decay(value) ==
    Setter("weight_decay", value, init_optimizer([clf EXCEPT !.weight_decay = value]))

\* loss_id setter, lines 197-200: any identifier is taken.
set_loss_id(value) ==
    Setter("loss_id", value, [clf EXCEPT !.loss_id = value])

----------------------------------------------------------------------------
\* Inference and gradients.  Every operator yields the adapter it leaves
\* (model.eval() switches the mode of the model handle), how it ended, what
\* it logged, the engine passes it ran, and what it returned.

Result(self, status, warnings, trace, out) ==
    [self |-> self, status |-> status, warnings |-> warnings, trace |-> trace, out |-> out]

Min(a, b) == IF a <= b THEN a ELSE b

Flatten(ss) == LET F[i \in 0..Len(ss)] == IF i = 0 THEN <<>> ELSE F[i-1] \o ss[i]
               IN F[Len(ss)]

\* An index: an integer, or a value of another type.
IntIndex(i) == [type |-> "int", value |-> i]
\* secml.core.type_utils.is_int
is_int(i) == i.type = "int"

\* tensor.float(): to single precision, 24 bits of mantissa (the integers of
\* the model are below 2^25, where the spacing is 2; ties go to even).
float32(v) ==
    LET a == IF v < 0 THEN 0 - v ELSE v
        r == IF a <= 16777216 THEN a
             ELSE IF a % 2 = 0 THEN a
             ELSE IF ((a - 1) \div 2) % 2 = 0 THEN a - 1 ELSE a + 1
    IN IF v < 0 THEN 0 - r ELSE r

\* A transform given by the caller.
apply_transform(t, row) ==
    IF t = None THEN row ELSE [k \in 1..Len(row) |-> 0 - row[k]]

\* CDatasetPyTorch.__init__ on an array of samples, lines 41-45.
CDatasetPyTorch(X, Y, t) == [X |-> X, Y |-> Y, transform |-> t]

\* CDatasetPyTorch.__len__, lines 48-50.
CDatasetPyTorch_len(ds) == Len(ds.X)

\* Row i (from 0, negative from the end) of an array, or None out of range.
row_at(A, i) ==
    IF i >= 0 /\ i < Len(A) THEN Some(A[i + 1])
    ELSE IF i < 0 /\ i >= 0 - Len(A) THEN Some(A[Len(A) + i + 1])
    ELSE None

\* A label: a scalar tensor (of the one value v holds) or a row.
Scalar(k) == [scalar |-> TRUE, v |-> <<k>>]
Row(r) == [scalar |-> FALSE, v |-> r]

\* An adapter that hands out the null label whatever it holds.
label_null(ds, i) == Scalar(-1)

\* CDatasetPyTorch.__getitem__, lines 66-74: the label of item i.  A flat
\* array of labels is held as its entries, each a sequence of one value.
label_of(ds, i) ==
    IF ds.Y # None
      THEN IF Val(ds.Y).ndim = 1
             THEN Scalar(Val(row_at(Val(ds.Y).data, i))[1])
             ELSE Row(Val(row_at(Val(ds.Y).data, i)))
      ELSE Scalar(-1)

\* An adapter that takes any index for the integer it holds.
index_unchecked(i) == FALSE

\* CDatasetPyTorch.__getitem__, lines 54-55.
index_refused(i) == ~is_int(i)

\* CDatasetPyTorch.__getitem__, lines 52-76.
CDatasetPyTorch_item(ds, i) ==
    IF index_refused(i)
      THEN [status |-> "ValueError: only integer indexing", out |-> None]
    ELSE IF row_at(ds.X, i.value) = None
      THEN [status |-> "IndexError", out |-> None]
    ELSE LET sample == apply_transform(ds.transform, Val(row_at(ds.X, i.value)))
         IN [status |-> "ok",
             out |-> Some([sample |-> [k \in 1..Len(sample) |-> float32(sample[k])],
                           label |-> label_of(ds, i.value)])]

\* CDatasetPyTorch(x) with the reshaping transform of _get_test_input_loader:
\* item i is the pair (sample, label), the label -1 as no labels are held.
\* numpy's reshape(None) leaves the sample as it is.
CDatasetPyTorch_getitem(self, x, i) ==
    << [shape |-> IF self.input_shape = None THEN <<Len(x[i])>> ELSE Val(self.input_shape),
        data |-> <<x[i]>>],
       -1 >>

\* The default collate of DataLoader: the samples stacked along a new axis.
collate(samples) ==
    [shape |-> <<Len(samples)>> \o samples[1].shape,
     data |-> [k \in 1..Len(samples) |-> samples[k].data[1]]]

\* A loader that drops the last batch when it is not full.
get_test_input_loader_drop_last(self, x) ==
    LET B == self.batch_size
    IN [j \in 1..(Len(x) \div B) |->
          collate([k \in 1..B |-> CDatasetPyTorch_getitem(self, x, (j - 1) * B + k)[1]])]

\* _get_test_input_loader: batches of batch_size in input order, not
\* shuffled, the last one possibly shorter.
get_test_input_loader(self, x) ==
    LET B == self.batch_size
        n == (Len(x) + B - 1) \div B
    IN [j \in 1..n |->
          collate([k \in 1..(Min(j * B, Len(x)) - (j - 1) * B) |->
                      CDatasetPyTorch_getitem(self, x, (j - 1) * B + k)[1]])]

\* CArray.argmax of one row: the first index (from 0) of the largest entry.
argmax(row) ==
    (CHOOSE k \in 1..Len(row) :
        /\ \A j \in 1..Len(row) : row[j] <= row[k]
        /\ \A j \in 1..(k - 1) : row[j] < row[k]) - 1

Pow2(n) == LET P[i \in 0..n] == IF i = 0 THEN 1 ELSE 2 * P[i-1] IN P[n]

\* CSoftmax.softmax of one row, in base 2 and as fractions <<numerator,
\* denominator>> with the row's common denominator.
softmax_num(row) ==
    LET lo == CHOOSE m \in {row[k] : k \in 1..Len(row)} :
                  \A k \in 1..Len(row) : m <= row[k]
    IN [k \in 1..Len(row) |-> Pow2(row[k] - lo)]
softmax(row) ==
    LET num == softmax_num(row)
        den == Sum(num)
    IN [k \in 1..Len(row) |-> <<num[k], den>>]

\* predict, lines 864-910.
predict(self, x, return_decision_function) ==
    IF is_clear(self)
      THEN Result(self, "ValueError: not trained", {}, <<>>, None)
      ELSE
        LET x_loader == get_test_input_loader(self, x)
            logits == [j \in 1..Len(x_loader) |->
                          squeeze1(Net_forward(self.model, x_loader[j])).data]
            raw == Flatten(logits)
            scores == IF self.softmax_outputs
                        THEN [i \in 1..Len(raw) |-> softmax(raw[i])] ELSE raw
            labels == [i \in 1..Len(raw) |->
                          argmax(IF self.softmax_outputs THEN softmax_num(raw[i])
                                 ELSE raw[i])]
        IN Result([self EXCEPT !.training = FALSE], "ok", {},
                  [j \in 1..Len(x_loader) |-> "forward"],
                  Some([labels |-> labels,
                        scores |-> IF return_decision_function THEN Some(scores)
                                   ELSE None]))

\* An extraction that counts the classes from 1.
extract_class_from_one(rows, y) ==
    [i \in 1..Len(rows) |-> rows[i][IF y >= 1 THEN y ELSE y + 1]]

\* _decision_function, line 825: logits[:, y].
extract_class(rows, y) == [i \in 1..Len(rows) |-> rows[i][y + 1]]

\* _decision_function, lines 792-832: class y (from 0) of every row.
decision_function(self, x, y) ==
    IF is_clear(self)
      THEN Result(self, "ValueError: not trained", {}, <<>>, None)
      ELSE
        LET x_loader == get_test_input_loader(self, x)
            column(j) ==
                LET logits == squeeze1(Net_forward(self.model, x_loader[j])).data
                IN extract_class(IF self.softmax_outputs
                                   THEN [i \in 1..Len(logits) |-> softmax(logits[i])]
                                   ELSE logits, y)
        IN Result([self EXCEPT !.training = FALSE], "ok", {},
                  [j \in 1..Len(x_loader) |-> "forward"],
                  Some(Flatten([j \in 1..Len(x_loader) |-> column(j)])))

\* An iteration over the modules that does not stop at the layer it found.
layer_index_no_break(P, layer) ==
    IF \E i \in 1..Len(P) : P[i].name = layer THEN Len(P) ELSE 0

\* Index of the first top-level module named layer, 0 when there is none.
layer_index(P, layer) ==
    IF \E i \in 1..Len(P) : P[i].name = layer
        THEN CHOOSE i \in 1..Len(P) :
                /\ P[i].name = layer
                /\ \A j \in 1..(i - 1) : P[j].name # layer
        ELSE 0

\* The modules 1..n applied in declaration order and nothing else.
apply_modules(P, n, t) ==
    LET F[i \in 0..n] == IF i = 0 THEN t ELSE apply_module(P[i], F[i-1])
    IN F[n]

\* _get_layer_output, lines 1012-1032: the output, or None for a layer that
\* is not there.
get_layer_output_tensor(P, s, layer) ==
    IF layer = None THEN Some(Net_forward(P, s))
    ELSE IF layer_index(P, Val(layer)) = 0 THEN None
    ELSE Some(apply_modules(P, layer_index(P, Val(layer)), s))

\* get_layer_output, lines 1051-1073.
get_layer_output(self, x, layer) ==
    LET x_loader == get_test_input_loader(self, x)
        outs == [j \in 1..Len(x_loader) |->
                    get_layer_output_tensor(self.model, x_loader[j], layer)]
        evald == [self EXCEPT !.training = FALSE]
    IN IF Len(x_loader) = 0 THEN Result(self, "ok", {}, <<>>, None)
       ELSE IF outs[1] = None
         THEN Result(evald, "ValueError: no layer", {}, <<"forward">>, None)
       ELSE Result(evald, "ok", {}, [j \in 1..Len(x_loader) |-> "forward"],
                   Some(Flatten([j \in 1..Len(x_loader) |-> Val(outs[j]).data])))

----------------------------------------------------------------------------
\* Backward pass of the engine.

\* W g in the place of W^T g.
RowsDot(W, g) == [k \in 1..Len(W) |-> Dot(W[k], g)]

\* (W^T g)[j] = sum over k of W[k][j] * g[k]
TransposeDot(W, g) ==
    [j \in 1..Len(W[1]) |-> Dot([k \in 1..Len(W) |-> W[k][j]], g)]

\* Pre-activations of Net.forward at the input vector v.
pre_activation(P, v) ==
    LET H[i \in 1..Len(P)] ==
            Linear(P[i], IF i = 1 THEN v ELSE relu(H[i-1]))
    IN H

\* out.backward(seed) through Net.forward (layer None) or through the first
\* n modules applied one after the other: the gradient left on the input v.
backward(P, v, n, through_forward, seed) ==
    LET H == pre_activation(P, v)
        mask(i, g) == IF through_forward /\ i < n
                        THEN [k \in 1..Len(g) |-> IF H[i][k] > 0 THEN g[k] ELSE 0]
                        ELSE g
        G[i \in 0..n] == IF i = n THEN seed
                         ELSE TransposeDot(P[i+1].weight, mask(i + 1, G[i+1]))
    IN G[0]

\* CSoftmax.gradient(out, pos_label=y) as numerators over the square of the
\* row's softmax denominator: s_y * (delta_yk - s_k).
softmax_gradient_num(row, y) ==
    LET num == softmax_num(row)
        den == Sum(num)
    IN [k \in 1..Len(row) |->
          num[y + 1] * ((IF k = y + 1 THEN den ELSE 0) - num[k])]

\* A mask that counts the classes from 1.
one_hot_from_one(K, y) == [k \in 1..K |-> IF k = y THEN 1 ELSE 0]

\* _gradient_f, lines 970-974: w_in.zero_(); w_in[0, y] = 1.
one_hot(K, y) == [k \in 1..K |-> IF k = y + 1 THEN 1 ELSE 0]

\* A seed that is the mask of y whenever y is given.
seed_of_label_first(K, y, w) == IF y # None THEN one_hot(K, Val(y)) ELSE Val(w)

\* _gradient_f, lines 961-977: the mask of y without a direction, the
\* direction otherwise.
seed_direction(K, y, w) == IF w = None THEN one_hot(K, Val(y)) ELSE Val(w)

\* CArray.is_vector_like of a 2-D array: it has one row.
is_vector_like(x) == Len(x) = 1

\* A gradient that takes whatever array it is given.
one_sample_unchecked(x) == FALSE

\* _gradient_f, lines 942-943: more than one sample is refused.
one_sample_only(x) == is_vector_like(x) = FALSE

\* A backward pass followed by a step of the optimizer, as in the training loop.
after_backward_step(self) == [self EXCEPT !.optimizer.state = 1 - @]

\* _gradient_f, line 991: out.backward(w_in) leaves the gradient on the input
\* s and steps nothing.
after_backward(self) == self

\* A gradient that never goes through the softmax.
softmax_never_applied(self, layer) == FALSE

\* _gradient_f, line 982: the seed is scaled by the softmax gradient.
softmax_applied(self, layer) == layer = None /\ self.softmax_outputs = TRUE

\* _gradient_f, lines 942-993.  x is the 2-D input, y the class or None, w the
\* direction or None, layer the layer name or None.  The gradient is returned
\* as numerators over a common denominator.
gradient_f(self, x, y, w, layer) ==
    IF one_sample_only(x)
      THEN Result(self, "ValueError: one sample only", {}, <<>>, None)
      ELSE
        LET s == unsqueeze0(CDatasetPyTorch_getitem(self, x, 1)[1])
            o == get_layer_output_tensor(self.model, s, layer)
            evald == [self EXCEPT !.training = FALSE]
        IN IF o = None
             THEN Result(evald, "ValueError: no layer", {}, <<"forward">>, None)
           ELSE IF w = None /\ layer # None
             THEN Result(evald, "ValueError: w is needed", {}, <<"forward">>, None)
           ELSE IF w = None /\ y = None
             THEN Result(evald, "ValueError: class label is required", {},
                         <<"forward">>, None)
           ELSE
             LET out == Val(o)
                 row == out.data[1]
                 w_in == seed_direction(Len(row), y, w)
                 scaled == softmax_applied(self, layer)
                 warnings == IF ~scaled /\ w # None /\ y # None
                               THEN {"y will be ignored"} ELSE {}
             IN IF scaled /\ y = None
                  THEN Result(evald, "TypeError: pos_label", {}, <<"forward">>, None)
                ELSE
                  LET sg == softmax_gradient_num(row, Val(y))
                      seed == IF scaled
                                THEN [k \in 1..Len(w_in) |-> w_in[k] * sg[k]]
                                ELSE w_in
                      den == IF scaled
                               THEN Sum(softmax_num(row)) * Sum(softmax_num(row))
                               ELSE 1
                      n == IF layer = None THEN Len(self.model)
                           ELSE layer_index(self.model, Val(layer))
                  IN Result(after_backward(evald), "ok", warnings,
                            <<"forward", "backward">>,
                            Some([num |-> backward(self.model, s.data[1], n,
                                                   layer = None, seed),
                                  den |-> den]))

----------------------------------------------------------------------------
\* Calls of the inference and gradient operations on the adapter, between
\* fit calls (one thread of control).

Returned(op, args, r) ==
    [op |-> op, args |-> args, status |-> r.status, warnings |-> r.warnings,
     trace |-> r.trace, out |-> r.out]

Query(op, args, r) ==
    /\ pc = "idle"
    /\ clf2 = None
    /\ clf' = r.self
    /\ ret' = Returned(op, args, r)
    /\ UNCHANGED <<clf2, pc, fit_locals, trained, solver>>

call_predict(x, rdf) ==
    Query("predict", [x |-> x, return_decision_function |-> rdf], predict(clf, x, rdf))

call_decision_function(x, y) ==
    Query("decision_function", [x |-> x, y |-> y], decision_function(clf, x, y))

call_get_layer_output(x, layer) ==
    Query("get_layer_output", [x |-> x, layer |-> layer], get_layer_output(clf, x, layer))

call_gradient(x, y, w, layer) ==
    Query("gradient", [x |-> x, y |-> y, w |-> w, layer |-> layer],
          gradient_f(clf, x, y, w, layer))

----------------------------------------------------------------------------
\* A second adapter of the same architecture, built by the caller, into which
\* the state of the first one is imported (test_save_load).

Second(op, args, r) ==
    /\ pc = "idle"
    /\ clf2' = Some(r.self)
    /\ ret' = Returned(op, args, r)
    /\ UNCHANGED <<clf, pc, fit_locals, trained, solver>>

\* clf2 = CClassifierPyTorch(...)
new_clf2(p, shape) ==
    /\ clf2 = None
    /\ Second("__init__", [on |-> "clf2"],
              Result(New(p, clf.epochs, clf.batch_size, shape, clf.softmax_outputs),
                     "ok", {}, <<>>, None))

\* clf2.load_state(clf.state_dict())
save_load ==
    /\ clf2 # None
    /\ LET r == load_state(Val(clf2), state_dict(clf))
       IN Second("load_state", [on |-> "clf2"],
                 Result(r.self, r.status, r.warnings, <<>>, None))

\* A record as state_dict gives it, without some entries of its optimizer
\* part (a checkpoint written by other code).
without(sd, keys) ==
    [sd EXCEPT !.optimizer = [k \in (DOMAIN sd.optimizer) \ keys |-> sd.optimizer[k]]]

\* clf2.load_state(record), the record lacking the given optimizer entries.
load_partial(keys) ==
    /\ clf2 # None
    /\ LET r == load_state(Val(clf2), without(state_dict(clf), keys))
       IN Second("load_state", [on |-> "clf2", without |-> keys],
                 Result(r.self, r.status, r.warnings, <<>>, None))

\* clf2.predict(x)
call_predict2(x) ==
    /\ clf2 # None
    /\ Second("predict", [on |-> "clf2", x |-> x], predict(Val(clf2), x, FALSE))

\* del clf2
del_clf2 ==
    /\ pc = "idle"
    /\ clf2 # None
    /\ clf2' = None
    /\ ret' = Call("del", [on |-> "clf2"], "ok", {}, None)
    /\ UNCHANGED <<clf, pc, fit_locals, trained, solver>>

\* A copy that goes on with the model and optimizer objects of the original.
borrowed_handles(new_obj, p) == [new_obj EXCEPT !.own_handles = FALSE]

\* __deepcopy__, lines 335-336: init_model and init_optimizer give the new
\* object a model and an optimizer of its own; p is what init_model draws.
new_handles(new_obj, p) ==
    [init_optimizer(init_model(new_obj, p)) EXCEPT !.own_handles = TRUE]

\* __deepcopy__, lines 309-347.  The attributes are copied with the model
\* and the optimizer taken out and put back afterwards; the new object
\* builds its own, loads the exported state, takes the classes and the
\* feature count of the original and counts the epoch back by one.
deepcopy(self, p) ==
    LET sd == state_dict(self)
        new_obj == new_handles(self, p)
        r == load_state(new_obj, sd)
    IN IF r.status # "ok"
         THEN [self |-> self, copy |-> None, status |-> r.status, warnings |-> r.warnings]
         ELSE [self |-> self,
               copy |-> Some([r.self EXCEPT !.classes = self.classes,
                                            !.n_features = self.n_features,
                                            !.start_epoch = @ - 1]),
               status |-> "ok", warnings |-> r.warnings]

\* clf2 = deepcopy(clf)
call_deepcopy(p) ==
    /\ pc = "idle"
    /\ clf2 = None
    /\ LET r == deepcopy(clf, p)
       IN /\ clf' = r.self
          /\ clf2' = r.copy
          /\ ret' = Call("deepcopy", [from |-> clf], r.status, r.warnings, None)
    /\ UNCHANGED <<pc, fit_locals, trained, solver>>

\* The parameters of the copy are assigned (an optimizer step on it, a
\* load_state_dict into its model): objects that two adapters hold in common
\* change for both.
change_copy(p) ==
    /\ pc = "idle"
    /\ clf2 # None
    /\ clf2' = Some([Val(clf2) EXCEPT !.model = p, !.optimizer.state = 1])
    /\ clf' = IF Val(clf2).own_handles THEN clf
              ELSE [clf EXCEPT !.model = p, !.optimizer.state = 1]
    /\ ret' = Call("change_copy", [on |-> "clf2", original |-> clf], "ok", {}, None)
    /\ UNCHANGED <<pc, fit_locals, trained, solver>>

\* clf.load_state(clf.state_dict()), up to MaxTrips times in a row; the call
\* record keeps the adapter as it was before the first of them and their
\* number.
round_trip ==
    /\ pc = "idle"
    /\ clf2 = None
    /\ ret.op = "round_trip" => ret.args.k < MaxTrips
    /\ clf.start_epoch < clf.epochs + MaxTrips
    /\ LET r == load_state(clf, state_dict(clf))
           first == ret.op # "round_trip"
       IN /\ clf' = r.self
          /\ ret' = Call("round_trip",
                         [from |-> IF first THEN clf ELSE ret.args.from,
                          k |-> IF first THEN 1 ELSE ret.args.k + 1,
                          all_ok |-> (first \/ ret.args.all_ok) /\ r.status = "ok"],
                         r.status, r.warnings, None)
          /\ trained' = (trained \/ r.status = "ok")
          /\ solver' = solver
    /\ UNCHANGED <<clf2, pc, fit_locals>>

----------------------------------------------------------------------------
\* Inputs of the calls.
Rows == {<<1, 0>>, <<0, 1>>}
\* The 2-D arrays of 1..n rows.
Arrays(n) == UNION {[1..k -> Rows] : k \in 1..n}
\* A few arrays of one, two and three rows.
FewArrays == {<< <<1, 0>> >>, << <<1, 0>>, <<0, 1>> >>, << <<0, 1>>, <<1, 0>>, <<1, 0>> >>}
Layers == {None, Some("fc1"), Some("fc2"), Some("fc3")}
Labels == {None, Some(0), Some(1)}
Directions == {None, Some(<<1, 2>>)}
\* gradient takes one sample; an array of two rows is refused.
GradArrays == Arrays(1) \cup {<< <<0, 1>>, <<1, 0>> >>}
GradLayers == {None, Some("fc1"), Some("fc3")}

OneRow == << <<1, 0>> >>

Init ==
    /\ \E p \in ParamSet, e \in 0..MaxEpochs, b \in 1..MaxBatch, shape \in Shapes :
          clf = New(p, e, b, shape, FALSE)
    /\ clf2 = None
    /\ pc = "idle"
    /\ store_best_params = TRUE
    /\ epoch_it = 0
    /\ batch_idx = 0
    /\ best_epoch = 0
    /\ best_state_dict = None
    /\ loader = NoLoader
    /\ ret = Call("__init__", [on |-> "clf"], "ok", {}, None)
    /\ entry = None
    /\ obs = NoObs
    /\ trained = FALSE
    /\ solver = None

Train ==
    \/ \E warm_start \in BOOLEAN, sbp \in BOOLEAN, p \in ParamSet : fit(warm_start, sbp, p)
    \/ epoch_begin
    \/ \E p \in ParamSet : train_batch(p)
    \/ \E a \in 0..MaxAcc : epoch_end(a)
    \/ fit_end

Next ==
    \/ Train
    \/ \E value \in BOOLEAN : set_regularize_bias(value)
    \/ call_predict(OneRow, FALSE)
    \/ call_decision_function(OneRow, 0)
    \/ \E p \in ParamSet, shape \in Shapes : new_clf2(p, shape)
    \/ save_load
    \/ call_predict2(OneRow)
    \/ del_clf2

Spec == Init /\ [][Next]_vars

\* Configuration changes between calls: adapters built with either weight
\* decay, either bias policy, any loss identifier and any shape; the setters;
\* training; records with and without their optimizer entries.
InitConfig ==
    /\ \E p \in ParamSet, shape \in AnyShapes, wd \in Decays,
          rb \in BOOLEAN, loss \in LossIds :
          clf = Construct(p, MaxEpochs, NTrain, shape, FALSE, wd, rb, loss)
    /\ clf2 = None
    /\ pc = "idle"
    /\ store_best_params = TRUE
    /\ epoch_it = 0
    /\ batch_idx = 0
    /\ best_epoch = 0
    /\ best_state_dict = None
    /\ loader = NoLoader
    /\ ret = Call("__init__", [on |-> "clf"], "ok", {}, None)
    /\ entry = None
    /\ obs = NoObs
    /\ trained = FALSE
    /\ solver = None

TrainConfig ==
    \/ \E warm_start \in BOOLEAN, p \in ParamSet : fit(warm_start, TRUE, p)
    \/ epoch_begin
    \/ \E p \in ParamSet : train_batch(p)
    \/ \E a \in 0..MaxAcc : epoch_end(a)
    \/ fit_end

NextConfig ==
    \/ TrainConfig
    \/ \E value \in Rates : set_learning_rate(value)
    \/ \E value \in Rates : set_momentum(value)
    \/ \E value \in Decays : set_weight_decay(value)
    \/ \E value \in BOOLEAN : set_regularize_bias(value)
    \/ \E value \in LossIds : set_loss_id(value)

InitLoad ==
    /\ \E p \in ParamSet, shape \in Shapes, wd \in Decays, rb \in BOOLEAN :
          clf = Construct(p, MaxEpochs, NTrain, shape, FALSE, wd, rb, "cross-entropy")
    /\ clf2 = None
    /\ pc = "idle"
    /\ store_best_params = TRUE
    /\ epoch_it = 0
    /\ batch_idx = 0
    /\ best_epoch = 0
    /\ best_state_dict = None
    /\ loader = NoLoader
    /\ ret = Call("__init__", [on |-> "clf"], "ok", {}, None)
    /\ entry = None
    /\ obs = NoObs
    /\ trained = FALSE
    /\ solver = None

NextLoad ==
    \/ TrainConfig
    \/ \E p \in ParamSet, shape \in AnyShapes : new_clf2(p, shape)
    \/ \E keys \in SUBSET {"defaults", "regularize_bias"} : load_partial(keys)
    \/ del_clf2

SpecLoad == InitLoad /\ [][NextLoad]_vars

SpecConfig == InitConfig /\ [][NextConfig]_vars

\* The sample adapter on its own: arrays of 1..MaxItems rows, wrapped without
\* labels, with one label per row or with one row of labels per row, with and
\* without a transform, and asked for its length and for items at indices of
\* every kind.
DataRows == {<<1, 0>>, <<0, 1>>, <<16777217, -3>>}
LabelSets(n) ==
    {None} \cup {Some([ndim |-> 1, data |-> y]) : y \in [1..n -> {<<0>>, <<1>>}]}
           \cup {Some([ndim |-> 2, data |-> y]) : y \in [1..n -> {<<1, 0>>, <<0, 1>>}]}
Transforms == {None, Some("negate")}
Indices ==
    {IntIndex(i) : i \in (0 - MaxItems - 1)..MaxItems}
        \cup {[type |-> "float", value |-> 0], [type |-> "float", value |-> 1],
              [type |-> "str", value |-> 0], [type |-> "slice", value |-> 0]}

InitDataset ==
    /\ clf = New(CHOOSE p \in ParamSet : TRUE, 1, 1, Some(KnownShape), FALSE)
    /\ clf2 = None
    /\ pc = "idle"
    /\ store_best_params = TRUE
    /\ epoch_it = 0
    /\ batch_idx = 0
    /\ best_epoch = 0
    /\ best_state_dict = None
    /\ loader = NoLoader
    /\ \E n \in 1..MaxItems : \E X \in [1..n -> DataRows], Y \in LabelSets(n),
          t \in Transforms :
          ret = Call("CDatasetPyTorch", [ds |-> CDatasetPyTorch(X, Y, t)], "ok", {}, None)
    /\ entry = None
    /\ obs = NoObs
    /\ trained = FALSE
    /\ solver = None

\* ds[i] and len(ds) on the adapter built at the start.
call_getitem(i) ==
    /\ "ds" \in DOMAIN ret.args
    /\ LET r == CDatasetPyTorch_item(ret.args.ds, i)
       IN ret' = Call("__getitem__", [ds |-> ret.args.ds, i |-> i], r.status, {}, r.out)
    /\ UNCHANGED <<clf, clf2, pc, fit_locals, trained, solver>>

call_len ==
    /\ "ds" \in DOMAIN ret.args
    /\ ret' = Call("__len__", [ds |-> ret.args.ds], "ok", {},
                   Some(CDatasetPyTorch_len(ret.args.ds)))
    /\ UNCHANGED <<clf, clf2, pc, fit_locals, trained, solver>>

NextDataset ==
    \/ \E i \in Indices : call_getitem(i)
    \/ call_len

SpecDataset == InitDataset /\ [][NextDataset]_vars

\* Records loaded back into the adapter they were taken from: adapters that
\* know their input shape, trained or not, the bias policy changed or not.
InitReload ==
    /\ \E p \in ParamSet, e \in 0..MaxEpochs, b \in 1..MaxBatch, rb \in BOOLEAN :
          clf = Construct(p, e, b, Some(KnownShape), FALSE, 1, rb, "cross-entropy")
    /\ clf2 = None
    /\ pc = "idle"
    /\ store_best_params = TRUE
    /\ epoch_it = 0
    /\ batch_idx = 0
    /\ best_epoch = 0
    /\ best_state_dict = None
    /\ loader = NoLoader
    /\ ret = Call("__init__", [on |-> "clf"], "ok", {}, None)
    /\ entry = None
    /\ obs = NoObs
    /\ trained = FALSE
    /\ solver = None

NextReload ==
    \/ Train
    \/ \E value \in BOOLEAN : set_regularize_bias(value)
    \/ round_trip

SpecReload == InitReload /\ [][NextReload]_vars

----------------------------------------------------------------------------
\* COptimizer (secml.optim.optimizers.c_optimizer) and the calls on it.

\* What a caller hands to the setters: an object, with its class and, for a
\* constraint, its class_type.
CFunctionObj(name) == [class |-> "CFunction", name |-> name, class_type |-> "none"]
CConstraintObj(t) == [class |-> "CConstraint", name |-> "constraint", class_type |-> t]
OtherObj == [class |-> "other", name |-> "other", class_type |-> "none"]

\* The points of the search space and the objective functions on them.
Points == 0..2
fun_value(name, x) == IF name = "f1" THEN (x - 1) * (x - 1) - 2 ELSE x + 1

\* The internal function _fun: the function f itself (sign 1), or the
\* CFunction of lines 216-218 that inverts the sign of f and of its gradient.
Fun(f, sign) == [f |-> f, sign |-> sign]
Fun_call(fun, x) == fun.sign * fun_value(fun.f.name, x)

\* A reset that leaves the evaluation counters.
COptimizer_clear_keeps_counters(self) ==
    [self EXCEPT !.x_opt = None, !.f_opt = None, !.f_seq = None, !.x_seq = None]

\* COptimizer.__clear, lines 61-73 (the clear() of the constraint objects
\* leaves their class_type).
COptimizer_clear(self) ==
    [self EXCEPT !.x_opt = None, !.f_opt = None, !.f_seq = None, !.x_seq = None,
                 !.f_eval = 0, !.grad_eval = 0]

\* The f setter, lines 132-141.
COptimizer_set_f(self, f) ==
    IF f.class # "CFunction"
      THEN [self |-> self, status |-> "TypeError: not a CFunction"]
      ELSE [self |-> COptimizer_clear([self EXCEPT !.f = Some(f), !.fun = Some(Fun(f, 1))]),
            status |-> "ok"]

\* The constr setter, lines 147-166.
COptimizer_set_constr(self, constr) ==
    IF constr = None
      THEN [self |-> COptimizer_clear([self EXCEPT !.constr = None]), status |-> "ok"]
    ELSE IF Val(constr).class # "CConstraint"
      THEN [self |-> self, status |-> "TypeError: not a CConstraint"]
    ELSE IF Val(constr).class_type # "l1" /\ Val(constr).class_type # "l2"
      THEN [self |-> self, status |-> "TypeError: only l1 or l2"]
    ELSE [self |-> COptimizer_clear([self EXCEPT !.constr = constr]), status |-> "ok"]

\* The bounds setter, lines 172-191.
COptimizer_set_bounds(self, bounds) ==
    IF bounds = None
      THEN [self |-> COptimizer_clear([self EXCEPT !.bounds = None]), status |-> "ok"]
    ELSE IF Val(bounds).class # "CConstraint"
      THEN [self |-> self, status |-> "TypeError: not a CConstraint"]
    ELSE IF Val(bounds).class_type # "box"
      THEN [self |-> self, status |-> "TypeError: only box"]
    ELSE [self |-> COptimizer_clear([self EXCEPT !.bounds = bounds]), status |-> "ok"]

\* bool(value) of a number.
bool(value) == value # 0

\* The discrete setter, lines 198-203.
COptimizer_set_discrete(self, value) ==
    [self |-> COptimizer_clear([self EXCEPT !.discrete = Some(bool(value))]),
     status |-> "ok"]

\* COptimizer.__init__, lines 36-56, with arguments the setters accept.
COptimizer_init(fun, constr, bounds, discrete) ==
    LET s0 == [f |-> None, constr |-> None, bounds |-> None, discrete |-> None,
               fun |-> None, f_seq |-> None, x_opt |-> None, f_opt |-> None,
               x_seq |-> None, f_eval |-> 0, grad_eval |-> 0]
        s1 == COptimizer_set_f(s0, fun).self
        s2 == COptimizer_set_constr(s1, constr).self
        s3 == COptimizer_set_bounds(s2, bounds).self
        s4 == COptimizer_set_discrete(s3, discrete).self
    IN COptimizer_clear(s4)

\* minimize of a concrete solver (abstract in COptimizer, line 210): it
\* works on the internal function _fun from x_init; it either raises, or
\* returns the point x it stopped at, with the points and the values of
\* _fun it went through and the evaluations it made.
minimize(self, x_init, x, raises) ==
    IF raises
      THEN [self |-> [self EXCEPT !.f_eval = @ + 1],
            status |-> "raised", out |-> None]
      ELSE [self |-> [self EXCEPT !.x_opt = Some(x),
                                  !.x_seq = Some(<<x_init, x>>),
                                  !.f_seq = Some(<<Fun_call(Val(self.fun), x_init),
                                                   Fun_call(Val(self.fun), x)>>),
                                  !.f_opt = Some(Fun_call(Val(self.fun), x)),
                                  !.f_eval = @ + 2,
                                  !.grad_eval = @ + 1],
            status |-> "ok", out |-> Some(x)]

\* A maximize that leaves the internal function as it is when it returns.
restore_fun_skipped(self) == self

\* maximize, line 226: self._fun = self.f.
restore_fun(self) == [self EXCEPT !.fun = Some(Fun(Val(self.f), 1))]

\* maximize, lines 213-228.
maximize(self, x_init, x, raises) ==
    LET inverted == [self EXCEPT !.fun = Some(Fun(Val(self.f), -1))]
        r == minimize(inverted, x_init, x, raises)
    IN IF r.status # "ok"
         THEN r
         ELSE [self |-> restore_fun([r.self EXCEPT !.f_seq =
                           Some([k \in 1..Len(Val(@)) |-> 0 - Val(@)[k]])]),
               status |-> "ok", out |-> r.out]

\* A call on the COptimizer object.
OnSolver(op, args, r, out) ==
    /\ solver # None
    /\ solver' = Some(r.self)
    /\ ret' = Call(op, args, r.status, {}, out)
    /\ UNCHANGED <<clf, clf2, pc, fit_locals, trained>>

assign_f(f) == OnSolver("f", [value |-> Some(f)], COptimizer_set_f(Val(solver), f), None)
assign_constr(c) ==
    OnSolver("constr", [value |-> c], COptimizer_set_constr(Val(solver), c), None)
assign_bounds(b) ==
    OnSolver("bounds", [value |-> b], COptimizer_set_bounds(Val(solver), b), None)
assign_discrete(v) ==
    OnSolver("discrete", [value |-> Some(v)], COptimizer_set_discrete(Val(solver), v), None)

call_minimize(x_init, x, raises) ==
    LET r == minimize(Val(solver), x_init, x, raises)
    IN /\ solver # None
       /\ Val(solver).f_eval + 2 <= MaxEval
       /\ OnSolver("minimize", [x_init |-> x_init], r, r.out)

call_maximize(x_init, x, raises) ==
    LET r == maximize(Val(solver), x_init, x, raises)
    IN /\ solver # None
       /\ Val(solver).f_eval + 2 <= MaxEval
       /\ OnSolver("maximize", [x_init |-> x_init], r, r.out)

\* The objects handed to the setters.
Functions == {CFunctionObj("f1"), CFunctionObj("f2")}
Constraints == {CConstraintObj("l1"), CConstraintObj("l2"), CConstraintObj("box")}

\* Solvers built with arguments the constructor accepts, then assigned to
\* and run.
InitOptimizer ==
    /\ clf = New(CHOOSE p \in ParamSet : TRUE, 1, 1, Some(KnownShape), FALSE)
    /\ clf2 = None
    /\ pc = "idle"
    /\ store_best_params = TRUE
    /\ epoch_it = 0
    /\ batch_idx = 0
    /\ best_epoch = 0
    /\ best_state_dict = None
    /\ loader = NoLoader
    /\ \E f \in Functions, c \in {None, Some(CConstraintObj("l2"))},
          b \in {None, Some(CConstraintObj("box"))}, d \in 0..1 :
          /\ solver = Some(COptimizer_init(f, c, b, d))
          /\ ret = Call("COptimizer", [value |-> Some(f)], "ok", {}, None)
    /\ entry = None
    /\ obs = NoObs
    /\ trained = FALSE

NextOptimizer ==
    \/ \E f \in Functions \cup {OtherObj} : assign_f(f)
    \/ \E c \in {None} \cup {Some(o) : o \in Constraints \cup {OtherObj}} : assign_constr(c)
    \/ \E b \in {None} \cup {Some(o) : o \in Constraints \cup {OtherObj}} : assign_bounds(b)
    \/ \E v \in 0..2 : assign_discrete(v)
    \/ \E x_init \in Points, x \in Points, raises \in BOOLEAN :
          call_minimize(x_init, x, raises)
    \/ \E x_init \in Points, x \in Points, raises \in BOOLEAN :
          call_maximize(x_init, x, raises)

SpecOptimizer == InitOptimizer /\ [][NextOptimizer]_vars

\* Copies and round trips: adapters with and without input shape, trained
\* or not, queried or not, the bias policy changed or not; the copy is
\* changed afterwards.
InitCopy ==
    /\ \E p \in ParamSet, e \in 0..MaxEpochs, shape \in Shapes, rb \in BOOLEAN :
          clf = Construct(p, e, NTrain, shape, FALSE, 1, rb, "cross-entropy")
    /\ clf2 = None
    /\ pc = "idle"
    /\ store_best_params = TRUE
    /\ epoch_it = 0
    /\ batch_idx = 0
    /\ best_epoch = 0
    /\ best_state_dict = None
    /\ loader = NoLoader
    /\ ret = Call("__init__", [on |-> "clf"], "ok", {}, None)
    /\ entry = None
    /\ obs = NoObs
    /\ trained = FALSE
    /\ solver = None

NextCopy ==
    \/ Train
    \/ round_trip
    \/ \E value \in BOOLEAN : set_regularize_bias(value)
    \/ call_predict(OneRow, FALSE)
    \/ \E p \in ParamSet : call_deepcopy(p)
    \/ \E p \in ParamSet : change_copy(p)
    \/ del_clf2

SpecCopy == InitCopy /\ [][NextCopy]_vars

\* Training with worker processes: fit calls with n_jobs from 1 to MaxJobs on
\* an adapter whose epochs have one batch or several.
InitWorkers ==
    /\ \E p \in ParamSet, e \in 1..MaxEpochs, b \in 1..MaxBatch :
          clf = New(p, e, b, Some(KnownShape), FALSE)
    /\ clf2 = None
    /\ pc = "idle"
    /\ store_best_params = TRUE
    /\ epoch_it = 0
    /\ batch_idx = 0
    /\ best_epoch = 0
    /\ best_state_dict = None
    /\ loader = NoLoader
    /\ ret = Call("__init__", [on |-> "clf"], "ok", {}, None)
    /\ entry = None
    /\ obs = NoObs
    /\ trained = FALSE
    /\ solver = None

NextWorkers ==
    \/ \E warm_start \in BOOLEAN, p \in ParamSet, n_jobs \in 1..MaxJobs :
          fit_jobs(warm_start, TRUE, p, n_jobs)
    \/ epoch_begin
    \/ \E b \in 0..(NTrain - 1) : worker_fetch(b)
    \/ \E p \in ParamSet : train_batch(p)
    \/ \E a \in 0..MaxAcc : epoch_end(a)
    \/ fit_end

SpecWorkers == InitWorkers /\ [][NextWorkers]_vars

\* The inference and gradient operations on every input of the bounded
\* sets, on new adapters and on adapters that imported the state of another.
InitQuery ==
    /\ \E p \in ParamSet \cup LinearSet, b \in 1..MaxBatch, sm \in BOOLEAN,
          loaded \in BOOLEAN :
       \E q \in {r \in ParamSet \cup LinearSet : Len(r) = Len(p)} :
          /\ clf = IF loaded
                    THEN load_state(New(q, 1, b, Some(KnownShape), sm),
                                    state_dict(New(p, 1, b, Some(KnownShape), sm))).self
                    ELSE New(p, 1, b, Some(KnownShape), sm)
          /\ trained = loaded
          /\ solver = None
    /\ clf2 = None
    /\ pc = "idle"
    /\ store_best_params = TRUE
    /\ epoch_it = 0
    /\ batch_idx = 0
    /\ best_epoch = 0
    /\ best_state_dict = None
    /\ loader = NoLoader
    /\ ret = Call("__init__", [on |-> "clf"], "ok", {}, None)
    /\ entry = None
    /\ obs = NoObs

NextQuery ==
    \/ \E x \in Arrays(MaxRows), rdf \in BOOLEAN : call_predict(x, rdf)
    \/ \E x \in FewArrays, y \in 0..1 : call_decision_function(x, y)
    \/ \E x \in FewArrays, layer \in Layers : call_get_layer_output(x, layer)
    \/ \E x \in GradArrays, y \in Labels, w \in Directions, layer \in GradLayers :
          call_gradient(x, y, w, layer)

SpecQuery == InitQuery /\ [][NextQuery]_vars

----------------------------------------------------------------------------
\* Properties of checkpoints and of the training loop (checked under Spec).

\* What a caller can tell apart in the results of predict on two adapters.
SamePredictions(a, b) ==
    \A x \in Arrays(MaxRows) :
        /\ predict(a, x, FALSE).status = predict(b, x, FALSE).status
        /\ predict(a, x, FALSE).out = predict(b, x, FALSE).out

\* The fit call that has just returned (normally or by raising), what it was
\* entered with and what its observer saw.
FitReturned == ret.op = "fit" /\ ret.status # "running"
FitEntry == Val(ret.out).entry
FitObs == Val(ret.out).obs

\* C1: once the state_dict of a trained adapter clf has been given to
\* load_state of a second adapter clf2 of the same architecture, clf2 predicts
\* what clf predicts on every input and clf2.start_epoch = clf.start_epoch + 1.
C1_RoundTrip ==
    (ret.op = "load_state" /\ ret.args.on = "clf2" /\ trained)
        => /\ Val(clf2).start_epoch = clf.start_epoch + 1
           /\ SamePredictions(Val(clf2), clf)

\* C2: after a fit call that ran N >= 1 epochs with store_best_params = True,
\* best_acc is the maximum of the accuracies observed in the epochs of that call.
C2_BestAccIsMaxObserved ==
    (FitReturned /\ ret.status = "ok" /\ ret.args.store_best_params /\ FitObs.n >= 1)
        => clf.best_acc = Val(FitObs.max)

\* C2 (amended): after a fit call that ran N >= 1 epochs with
\* store_best_params = True, best_acc is the maximum of the best_acc the
\* training loop was entered with and the accuracies observed in its epochs.
C2_BestAccIsMaxWithEntry ==
    (FitReturned /\ ret.args.store_best_params /\ FitObs.n >= 1)
        => clf.best_acc = Max(FitEntry.best_acc, Val(FitObs.max))

\* A warm-started call whose epoch stayed below the best accuracy of before.
C2_Witness ==
    /\ FitReturned /\ ret.status = "ok" /\ ret.args.store_best_params
    /\ ret.args.warm_start
    /\ FitObs.n >= 1
    /\ FitEntry.best_acc > Val(FitObs.max)
    /\ clf.best_acc = FitEntry.best_acc

\* C3: with store_best_params = True the parameters a fit call leaves are
\* those of the first epoch that achieved the maximum accuracy; a later epoch
\* that ties it does not replace them.
C3_FirstBestRestored ==
    (FitReturned /\ ret.status = "ok" /\ ret.args.store_best_params /\ FitObs.n >= 1)
        => clf.model = Val(FitObs.first)

\* C3 (amended): with store_best_params = True the parameters a normally
\* returning fit call leaves are those of the last epoch that achieved the
\* maximum accuracy (a later tie replaces the snapshot), unless every epoch
\* stayed below the best_acc held at entry: then they are those held at entry.
C3_LastBestRestored ==
    (FitReturned /\ ret.status = "ok" /\ ret.args.store_best_params /\ FitObs.n >= 1)
        => clf.model = IF Val(FitObs.max) >= FitEntry.best_acc
                         THEN Val(FitObs.last)
                         ELSE FitEntry.model

\* Two epochs tied at the maximum with different parameters: the later wins.
C3_Witness ==
    /\ FitReturned /\ ret.status = "ok" /\ ret.args.store_best_params
    /\ FitObs.n >= 2
    /\ Val(FitObs.max) >= FitEntry.best_acc
    /\ FitObs.first # FitObs.last
    /\ clf.model = Val(FitObs.last)

\* C4: a training loop entered with start_epoch >= epochs (by fit with
\* warm_start True or False) runs no epoch and no step, warns, returns
\* normally, and leaves the model parameters and the optimizer as they were
\* when it was entered.
C4_NoEpochsLeft ==
    (FitReturned /\ FitEntry.start_epoch >= FitEntry.epochs)
        => /\ ret.status = "ok"
           /\ "maximum number of epochs" \in ret.warnings
           /\ FitObs.n = 0
           /\ FitObs.steps = 0
           /\ clf.model = FitEntry.model
           /\ clf.optimizer = FitEntry.optimizer
           /\ clf.start_epoch = FitEntry.start_epoch

\* A trained adapter asked to continue when all its epochs are done.
C4_Witness ==
    /\ FitReturned /\ ret.args.warm_start
    /\ FitEntry.start_epoch >= FitEntry.epochs
    /\ FitEntry.start_epoch >= 1
    /\ FitEntry.optimizer.state = 1
    /\ "maximum number of epochs" \in ret.warnings

\* C5: predict and decision_function on an adapter on which no fit and no
\* load_state has completed raise the not-trained error before any forward
\* pass; once one has completed they do not raise it.
C5_NotTrainedError ==
    (ret.op \in {"predict", "decision_function"} /\ "on" \notin DOMAIN ret.args)
        => IF trained
             THEN ret.status # "ValueError: not trained"
             ELSE ret.status = "ValueError: not trained" /\ ret.trace = <<>>

----------------------------------------------------------------------------
\* Properties of the inference and gradient operations (checked under
\* SpecQuery).

\* The call that has just returned was made on clf.
OnClf == "on" \notin DOMAIN ret.args

\* The output of the forward pass of the network for one row.
RowForward(P, row) ==
    IF Len(P) = 1 THEN Linear(P[1], row)
    ELSE Linear(P[2], relu(Linear(P[1], row)))

\* The modules 1..k applied to one row, one after the other.
RECURSIVE Chain(_, _, _)
Chain(P, k, v) == IF k = 0 THEN v ELSE Linear(P[k], Chain(P, k - 1, v))

\* The gradient at the input of g . Chain(P, k, v).
RECURSIVE ChainGradient(_, _, _)
ChainGradient(P, k, g) ==
    IF k = 0 THEN g ELSE ChainGradient(P, k - 1, TransposeDot(P[k].weight, g))

\* C6: predict on N rows returns N labels, the i-th an index of a largest
\* entry of the network's output for row i, and the same labels whatever the
\* batch size.
C6_PredictLabels ==
    (ret.op = "predict" /\ OnClf /\ ret.status = "ok")
        => LET x == ret.args.x
               labels == Val(ret.out).labels
           IN /\ Len(labels) = Len(x)
              /\ \A i \in 1..Len(x) :
                    LET o == RowForward(clf.model, x[i])
                    IN /\ labels[i] + 1 \in 1..Len(o)
                       /\ \A k \in 1..Len(o) : o[k] <= o[labels[i] + 1]
              /\ \A B \in 1..(MaxRows + 1) :
                    LET r == predict([clf EXCEPT !.batch_size = B], x, FALSE)
                    IN r.status = "ok" /\ Val(r.out).labels = labels

\* Three rows in batches of two: the last batch is shorter.
C6_Witness ==
    /\ ret.op = "predict" /\ OnClf /\ ret.status = "ok"
    /\ Len(ret.args.x) = 3
    /\ clf.batch_size = 2
    /\ ret.trace = <<"forward", "forward">>
    /\ Len(Val(ret.out).labels) = 3
    /\ Val(ret.out).labels[1] # Val(ret.out).labels[3]

\* The fields of the training state.
TrainingState(self) ==
    [model |-> self.model, optimizer |-> self.optimizer,
     learning_rate |-> self.learning_rate, momentum |-> self.momentum,
     weight_decay |-> self.weight_decay, regularize_bias |-> self.regularize_bias,
     start_epoch |-> self.start_epoch, acc |-> self.acc, best_acc |-> self.best_acc,
     input_shape |-> self.input_shape]

\* C7: a call of predict, decision_function, get_layer_output or gradient
\* leaves the parameters, the optimizer and its hyperparameters, the epoch
\* counter, acc, best_acc and input_shape as they were, however it ends.
C7_QueriesKeepTrainingState ==
    [][(ret'.op \in {"predict", "decision_function", "get_layer_output", "gradient"}
            /\ "on" \notin DOMAIN ret'.args)
          => TrainingState(clf') = TrainingState(clf)]_vars

\* A gradient that ran its forward and backward pass on an adapter holding
\* imported state.
C7_Witness ==
    /\ ret.op = "gradient" /\ ret.status = "ok"
    /\ ret.trace = <<"forward", "backward">>
    /\ trained
    /\ clf.training = FALSE
    /\ clf.start_epoch = 1

\* C8: for a layer name L, get_layer_output and gradient work on the output
\* of the top-level modules applied in declaration order up to and including
\* the first one named L and of none after it; a name no module has is an
\* error; without a name the network's forward pass is used.
C8_LayerOutput ==
    /\ (ret.op = "get_layer_output" /\ ret.args.layer = None)
          => /\ ret.status = "ok"
             /\ Val(ret.out) = [i \in 1..Len(ret.args.x) |->
                                   RowForward(clf.model, ret.args.x[i])]
    /\ (ret.op \in {"get_layer_output", "gradient"} /\ ret.args.layer # None
          /\ (ret.op = "gradient" => Len(ret.args.x) = 1 /\ ret.args.w # None))
          => LET P == clf.model
                 L == Val(ret.args.layer)
                 x == ret.args.x
             IN IF \E k \in 1..Len(P) : P[k].name = L
                  THEN \E k \in 1..Len(P) :
                          /\ P[k].name = L
                          /\ \A j \in 1..(k - 1) : P[j].name # L
                          /\ ret.status = "ok"
                          /\ IF ret.op = "get_layer_output"
                               THEN Val(ret.out) =
                                        [i \in 1..Len(x) |-> Chain(P, k, x[i])]
                               ELSE Val(ret.out).num =
                                        ChainGradient(P, k, Val(ret.args.w))
                  ELSE ret.status = "ValueError: no layer"

\* The output of the first of two modules, which differs from the output of
\* the whole network.
C8_Witness ==
    /\ ret.op = "get_layer_output" /\ ret.status = "ok"
    /\ ret.args.layer = Some("fc1")
    /\ Len(ret.args.x) = 2
    /\ Val(ret.out)[1] = Linear(clf.model[1], ret.args.x[1])
    /\ Val(ret.out)[1] # RowForward(clf.model, ret.args.x[1])

\* C9: gradient on an input of more than one row raises an error before any
\* forward or backward pass; an input of one row is not refused for its rows.
C9_OneSampleOnly ==
    ret.op = "gradient"
        => IF Len(ret.args.x) > 1
             THEN /\ ret.status = "ValueError: one sample only"
                  /\ ret.trace = <<>>
                  /\ ret.out = None
             ELSE ret.status # "ValueError: one sample only"

\* Two rows given with a class label to an adapter that could take one row.
C9_Witness ==
    /\ ret.op = "gradient"
    /\ Len(ret.args.x) = 2
    /\ ret.args.y = Some(0) /\ ret.args.w = None /\ ret.args.layer = None
    /\ trained
    /\ ret.status = "ValueError: one sample only"
    /\ ret.trace = <<>>

----------------------------------------------------------------------------
\* The epoch counter (checked under Spec).

\* C10: start_epoch is never negative, and a fit call with warm_start = True
\* never returns with a start_epoch smaller than the one it was entered with.
C10_EpochCounter ==
    /\ clf.start_epoch >= 0
    /\ clf2 # None => Val(clf2).start_epoch >= 0
    /\ (FitReturned /\ ret.args.warm_start)
          => clf.start_epoch >= FitEntry.start_epoch

\* A warm-started call that ran an epoch and restored the state it was
\* entered with, one epoch further.
C10_Witness ==
    /\ FitReturned /\ ret.args.warm_start /\ ret.args.store_best_params
    /\ FitObs.n >= 1
    /\ FitEntry.start_epoch >= 1
    /\ Val(FitObs.max) < FitEntry.best_acc
    /\ clf.start_epoch = FitEntry.start_epoch + 1

----------------------------------------------------------------------------
\* The optimizer handle against the settings of the adapter that holds it:
\* the defaults it was built with, and which parameters each of its groups
\* holds under which weight decay.
Grouping(params) ==
    [g \in 1..Len(params) |->
        [params |-> params[g].params, weight_decay |-> params[g].weight_decay]]

OptimizerAgrees(self) ==
    /\ self.optimizer.defaults = [lr |-> self.learning_rate,
                                  momentum |-> self.momentum,
                                  weight_decay |-> self.weight_decay]
    /\ Grouping(self.optimizer.param_groups) =
          Grouping(IF self.weight_decay # 0 /\ ~self.regularize_bias
                     THEN add_weight_decay(self) ELSE parameters(self))

\* C11: in every reachable state the optimizer's hyperparameters and its
\* parameter grouping agree with the adapter's learning_rate, momentum,
\* weight_decay and regularize_bias, whichever of them was last assigned.
C11_OptimizerAgrees == OptimizerAgrees(clf)

\* The same with the regularize_bias flag left as the adapter was built: what
\* the three setters that recreate the optimizer keep true.
C11_AgreesUnlessBiasPolicySet ==
    (ret.op \in {"learning_rate", "momentum", "weight_decay"}) => OptimizerAgrees(clf)

\* What a fit call that fails is said to leave alone.
FitOutcome(self) ==
    [model |-> self.model, optimizer_state |-> self.optimizer.state,
     start_epoch |-> self.start_epoch, acc |-> self.acc, best_acc |-> self.best_acc]

\* C12: a fit call that raises leaves the model parameters, the optimizer
\* state, the epoch counter and the accuracies as they were before the call.
\* Stated for calls with warm_start=True, where the adapter the training loop
\* is entered with is the adapter as it was before the call.
C12_FitAllOrNothing ==
    (FitReturned /\ ret.status # "ok" /\ ret.args.warm_start)
        => FitOutcome(clf) = FitOutcome(FitEntry)

\* The same for the failures that come before the first optimizer step only.
C12_NothingBeforeFirstStep ==
    (FitReturned /\ ret.status # "ok" /\ ret.args.warm_start /\ FitObs.steps = 0)
        => FitOutcome(clf) = FitOutcome(FitEntry)

\* C13: an unsupported loss identifier is taken by the constructor and by
\* the loss_id setter without an error; a fit call that gets to run an epoch
\* with it ends in the loss error, and it does so on the first batch of the
\* first epoch it runs: no optimizer step was made, no epoch was completed,
\* the epoch counter, the model and the optimizer state are those the loop
\* was entered with, and the call is over.
UnsupportedLoss(self) == self.loss_id \notin {"cross-entropy", "mse"}

C13_LossErrorAtFirstBatch ==
    /\ (ret.op \in {"__init__", "loss_id"}) => ret.status = "ok"
    /\ (ret.op = "loss_id") => clf.loss_id = ret.args.value
    /\ (FitReturned /\ UnsupportedLoss(clf))
          => \/ ret.status = "ValueError: loss"
             \/ ret.status = "KeyError: initial_lr"
             \/ ret.status = "ok" /\ "maximum number of epochs" \in ret.warnings
    /\ (FitReturned /\ ret.status = "ValueError: loss")
          => /\ UnsupportedLoss(clf)
             /\ FitObs.steps = 0
             /\ FitObs.n = 0
             /\ pc = "idle"
             /\ clf.start_epoch = FitEntry.start_epoch
             /\ clf.model = FitEntry.model
             /\ clf.optimizer.state = FitEntry.optimizer.state

C13_Witness ==
    /\ FitReturned
    /\ ret.status = "ValueError: loss"
    /\ clf.loss_id = "hinge"
    /\ FitEntry.start_epoch > 0

\* A step in which the second adapter loads a record of the first.
LoadStep == clf2 # None /\ clf2' # None /\ ret'.op = "load_state"

Restored(self, from) ==
    /\ self.start_epoch = from.start_epoch + 1
    /\ self.acc = from.acc
    /\ self.best_acc = from.best_acc
    /\ self.model = from.model

Hyperparameters(self) ==
    [learning_rate |-> self.learning_rate, momentum |-> self.momentum,
     weight_decay |-> self.weight_decay]

\* A step in which the second adapter loads a record without 'defaults'.
LoadWithoutDefaults == LoadStep /\ "defaults" \in ret'.args.without

\* C15 as stated: on load_state of a record without 'defaults' the adapter
\* keeps its learning_rate, momentum and weight_decay, the warning is emitted
\* and the load goes on to restore epoch, accuracies and model parameters.
C15_LoadContinues ==
    [][LoadWithoutDefaults =>
        /\ Hyperparameters(Val(clf2')) = Hyperparameters(Val(clf2))
        /\ "no defaults" \in ret'.warnings
        /\ Restored(Val(clf2'), clf)]_vars

\* C15: on load_state of a record without 'defaults' the adapter keeps its
\* learning_rate, momentum and weight_decay and the warning is emitted; epoch,
\* accuracies and model parameters are restored unless the optimizer refuses
\* the record, which it does exactly when the record's parameter groups are
\* not those of the adapter's optimizer.
C15_LoadContinuesIfGroupsMatch ==
    [][LoadWithoutDefaults =>
        /\ Hyperparameters(Val(clf2')) = Hyperparameters(Val(clf2))
        /\ "no defaults" \in ret'.warnings
        /\ (ret'.status # "ValueError: parameter groups") => Restored(Val(clf2'), clf)
        /\ (ret'.status = "ValueError: parameter groups")
              <=> (Len(Val(clf2').optimizer.param_groups) #
                     Len(clf.optimizer.param_groups))]_vars

C15_Witness ==
    /\ ret.op = "load_state"
    /\ "defaults" \in ret.args.without
    /\ ret.status = "ok"
    /\ clf.start_epoch > 0
    /\ clf2 # None
    /\ Val(clf2).weight_decay # clf.weight_decay
    /\ Val(clf2).start_epoch = clf.start_epoch + 1

\* A step in which fit is called.
FitCall == pc = "idle" /\ ret'.op = "fit" /\ <<clf, ret, pc>>' # <<clf, ret, pc>>

\* The optimizer without the bookkeeping a scheduler adds to its groups.
OptimizerCore(opt) ==
    [defaults |-> opt.defaults, state |-> opt.state,
     groups |-> [g \in 1..Len(opt.param_groups) |->
        [params |-> opt.param_groups[g].params,
         weight_decay |-> opt.param_groups[g].weight_decay,
         momentum |-> opt.param_groups[g].momentum,
         lr |-> opt.param_groups[g].lr]]]

\* An optimizer as optim.SGD leaves it for the adapter's current settings:
\* no momentum buffer, every group at the undecayed learning rate.
FreshOptimizer(self) ==
    /\ OptimizerAgrees(self)
    /\ self.optimizer.state = 0
    /\ \A g \in 1..Len(self.optimizer.param_groups) :
          /\ self.optimizer.param_groups[g].lr = [base |-> self.learning_rate, decays |-> 0]
          /\ self.optimizer.param_groups[g].momentum = self.momentum

\* C16: a fit call with warm_start=False enters training with epoch counter,
\* acc and best_acc at 0, a model as init_model draws it and an optimizer as
\* init_optimizer builds it, whatever the adapter was before; a fit call with
\* warm_start=True enters it with the model parameters, the optimizer, the
\* epoch counter and the accuracies the adapter had; the first epoch of
\* either is the epoch counter it was entered with.
C16_ColdStartsCleanWarmContinues ==
    [][FitCall =>
        /\ ~ret'.args.warm_start =>
              /\ clf'.start_epoch = 0 /\ clf'.acc = 0 /\ clf'.best_acc = 0
              /\ clf'.model \in ParamSet
              /\ FreshOptimizer(clf')
              /\ clf'.classes = Some(dataset.classes)
        /\ ret'.args.warm_start =>
              /\ FitOutcome(clf') = FitOutcome(clf)
              /\ OptimizerCore(clf'.optimizer) = OptimizerCore(clf.optimizer)
        /\ (ret'.status = "running") =>
              /\ epoch_it' = clf'.start_epoch
              /\ Val(entry') = [clf' EXCEPT !.optimizer = Val(entry').optimizer]
              /\ OptimizerCore(Val(entry').optimizer) = OptimizerCore(clf'.optimizer)]_vars

\* A warm call that resumed an adapter with a history and ran an epoch.
C16_Witness ==
    /\ FitReturned
    /\ ret.status = "ok"
    /\ ret.args.warm_start
    /\ FitEntry.start_epoch > 0
    /\ FitEntry.optimizer.state = 1
    /\ FitObs.n >= 1

----------------------------------------------------------------------------
\* Scores and gradients (checked under SpecQuery).

\* C17: decision_function(x, y) on a trained adapter returns, row for row,
\* entry y of the scores that predict(x, return_decision_function=True)
\* returns, with softmax_outputs on or off, and whatever the batch size of
\* either call.
C17_DecisionFunctionIsColumn ==
    (ret.op = "decision_function" /\ OnClf /\ ~is_clear(clf))
        => /\ ret.status = "ok"
           /\ Len(Val(ret.out)) = Len(ret.args.x)
           /\ \A B \in 1..(MaxRows + 1) :
                 LET r == predict([clf EXCEPT !.batch_size = B], ret.args.x, TRUE)
                     scores == Val(Val(r.out).scores)
                 IN /\ r.status = "ok"
                    /\ Len(scores) = Len(ret.args.x)
                    /\ \A i \in 1..Len(scores) :
                          Val(ret.out)[i] = scores[i][ret.args.y + 1]

\* Three rows in batches of two, the scores softmax-scaled, class 1 asked for
\* and its scores not those of class 0.
C17_Witness ==
    /\ ret.op = "decision_function" /\ OnClf /\ ret.status = "ok"
    /\ clf.softmax_outputs
    /\ clf.batch_size = 2
    /\ Len(ret.args.x) = 3
    /\ ret.args.y = 1
    /\ Val(ret.out) # Val(decision_function(clf, ret.args.x, 0).out)

\* The derivative of g . Net.forward at the input v, written out as sums: for
\* one module sum_k g[k] W[k][j]; for two, with h the output of the first,
\* sum_k sum_m g[k] W2[k][m] [h[m] > 0] W1[m][j].
InputGradient(P, v, g) ==
    LET W1 == P[1].weight
    IN IF Len(P) = 1
         THEN [j \in 1..Len(v) |-> Sum([k \in 1..Len(g) |-> g[k] * W1[k][j]])]
         ELSE LET W2 == P[2].weight
                  h == Linear(P[1], v)
              IN [j \in 1..Len(v) |->
                    Sum([k \in 1..Len(g) |->
                        Sum([m \in 1..Len(h) |->
                            IF h[m] > 0 THEN g[k] * W2[k][m] * W1[m][j] ELSE 0])])]

\* A gradient call on one sample.
GradientCall == ret.op = "gradient" /\ Len(ret.args.x) = 1

\* C18: a gradient call without a direction (w = None) on the last layer
\* (layer = None) needs the class y, and back-propagates the vector of the
\* output width that is 1 at y and 0 elsewhere (scaled by the softmax
\* gradient at y when softmax_outputs is on); without y it raises an error;
\* on any layer that is named it raises an error, no backward pass made.
C18_ImplicitSeed ==
    (GradientCall /\ ret.args.w = None)
        => LET x == ret.args.x[1]
               K == Len(RowForward(clf.model, x))
           IN /\ (ret.args.layer # None)
                    => /\ ret.status \in {"ValueError: w is needed", "ValueError: no layer"}
                       /\ ret.out = None
                       /\ ret.trace = <<"forward">>
              /\ (ret.args.layer = None /\ ret.args.y = None)
                    => /\ ret.status = "ValueError: class label is required"
                       /\ ret.out = None
                       /\ ret.trace = <<"forward">>
              /\ (ret.args.layer = None /\ ret.args.y # None)
                    => LET y == Val(ret.args.y)
                           e == [k \in 1..K |-> IF k = y + 1 THEN 1 ELSE 0]
                           sg == softmax_gradient_num(RowForward(clf.model, x), y)
                           seed == IF clf.softmax_outputs
                                     THEN [k \in 1..K |-> e[k] * sg[k]] ELSE e
                           total == Sum(softmax_num(RowForward(clf.model, x)))
                       IN /\ ret.status = "ok"
                          /\ ret.warnings = {}
                          /\ Val(ret.out).num = InputGradient(clf.model, x, seed)
                          /\ Val(ret.out).den = IF clf.softmax_outputs
                                                  THEN total * total ELSE 1
                          /\ Len(Val(ret.out).num) = Len(x)

\* The gradient of class 1 on the raw scores, not that of class 0.
C18_Witness ==
    /\ GradientCall /\ ret.status = "ok"
    /\ ret.args.w = None /\ ret.args.layer = None /\ ret.args.y = Some(1)
    /\ ~clf.softmax_outputs
    /\ Val(ret.out).num = InputGradient(clf.model, ret.args.x[1], <<0, 1>>)
    /\ Val(ret.out).num # InputGradient(clf.model, ret.args.x[1], <<1, 0>>)

\* A gradient call on the last layer with a direction and a class.
DirectionAndClass ==
    /\ GradientCall
    /\ ret.args.layer = None
    /\ ret.args.w # None
    /\ ret.args.y # None

\* C19 as stated: a gradient call on the last layer with a direction and a
\* class returns what the call with the same direction and no class returns,
\* and logs the warning that y is ignored.
C19_ClassIgnored ==
    DirectionAndClass
        => /\ ret.status = "ok"
           /\ "y will be ignored" \in ret.warnings
           /\ ret.out = gradient_f(clf, ret.args.x, None, ret.args.w, None).out

\* C19: with softmax_outputs off, a gradient call on the last layer with a
\* direction back-propagates the direction whatever the class, and logs the
\* warning exactly when a class is given too; with softmax_outputs on, the
\* class selects the softmax gradient the direction is scaled by and nothing
\* is logged.
C19_ClassIgnoredWithoutSoftmax ==
    /\ (GradientCall /\ ret.args.layer = None /\ ret.args.w # None
           /\ ~clf.softmax_outputs)
          => /\ ret.status = "ok"
             /\ Val(ret.out).num =
                   InputGradient(clf.model, ret.args.x[1], Val(ret.args.w))
             /\ Val(ret.out).den = 1
             /\ ret.warnings = IF ret.args.y # None THEN {"y will be ignored"} ELSE {}
    /\ (DirectionAndClass /\ clf.softmax_outputs)
          => LET x == ret.args.x[1]
                 w == Val(ret.args.w)
                 sg == softmax_gradient_num(RowForward(clf.model, x), Val(ret.args.y))
             IN /\ ret.status = "ok"
                /\ ret.warnings = {}
                /\ Val(ret.out).num =
                      InputGradient(clf.model, x, [k \in 1..Len(w) |-> w[k] * sg[k]])

\* A direction and a class on raw scores: the warning, and the gradient of
\* the direction, which is not the gradient of the class.
C19_Witness ==
    /\ DirectionAndClass
    /\ ~clf.softmax_outputs
    /\ ret.status = "ok"
    /\ ret.warnings = {"y will be ignored"}
    /\ Val(ret.out).num #
          InputGradient(clf.model, ret.args.x[1],
                        [k \in 1..2 |-> IF k = Val(ret.args.y) + 1 THEN 1 ELSE 0])

\* C20: for a model of one linear module with weight matrix W, softmax
\* outputs off, the gradient of class k on the last layer without a direction
\* is row k of W at every sample, a flat sequence as long as the sample.
C20_LinearGradientIsRow ==
    (GradientCall /\ Len(clf.model) = 1 /\ ~clf.softmax_outputs
       /\ ret.args.layer = None /\ ret.args.w = None /\ ret.args.y # None)
        => /\ ret.status = "ok"
           /\ Val(ret.out).num = clf.model[1].weight[Val(ret.args.y) + 1]
           /\ Val(ret.out).den = 1
           /\ Len(Val(ret.out).num) = Len(ret.args.x[1])

\* Class 1 of the linear model: row 2 of W, which is not its column 2.
C20_Witness ==
    /\ GradientCall /\ ret.status = "ok"
    /\ Len(clf.model) = 1 /\ ~clf.softmax_outputs
    /\ ret.args.layer = None /\ ret.args.w = None /\ ret.args.y = Some(1)
    /\ Val(ret.out).num = <<3, -1>>
    /\ Val(ret.out).num # <<clf.model[1].weight[1][2], clf.model[1].weight[2][2]>>

----------------------------------------------------------------------------
\* The training loop and its loader (checked under SpecWorkers and Spec).

\* A step in which a worker of the loader gets a batch ready.
WorkerStep == pc = "batch" /\ loader'.ready \ loader.ready # {}

\* A step of a running epoch that changes the parameters or the optimizer.
UpdateStep ==
    /\ pc = "batch" /\ pc' = "batch"
    /\ (clf'.model # clf.model \/ clf'.optimizer # clf.optimizer
           \/ obs'.steps # obs.steps)

\* C21: whatever n_jobs is, a worker of the loader only gets batches ready
\* and leaves the adapter and the progress of the loop alone; every step that
\* changes the parameters or the optimizer is the main thread's step on the
\* batch delivered next, the whole of it (forward pass to optimizer step) in
\* one piece, one batch and one optimizer step at a time.
C21_UpdatesOnMainThread ==
    [][/\ WorkerStep => (clf' = clf /\ obs' = obs /\ batch_idx' = batch_idx)
       /\ UpdateStep =>
             /\ delivered(loader, batch_idx)
             /\ batch_idx' = batch_idx + 1
             /\ loader'.ready = loader.ready \ {batch_idx}
             /\ obs'.steps = obs.steps + 1
             /\ obs'.ops = <<"forward", "loss", "zero_grad", "backward", "step">>]_vars

\* Two workers: the second batch of the epoch is ready while the main thread
\* has made the step of the first.
C21_Witness ==
    /\ pc = "batch"
    /\ loader.n_jobs = 3
    /\ batch_idx = 1
    /\ loader.ready = {1}
    /\ obs.steps = 1
    /\ clf.optimizer.state = 1

----------------------------------------------------------------------------
\* The sample adapter (checked under SpecDataset).

\* An item was asked of the adapter; the position the index stands for.
ItemCall == ret.op = "__getitem__"
ItemPosition ==
    IF ret.args.i.value >= 0 THEN ret.args.i.value + 1
    ELSE Len(ret.args.ds.X) + ret.args.i.value + 1

\* C22: every item the adapter returns is a pair (sample, label); without
\* labels the label is the scalar -1; with a flat array of labels it is the
\* scalar label of the sample returned, with a 2-D array of labels the row
\* of labels of the sample returned.
C22_ItemLabel ==
    (ItemCall /\ ret.status = "ok")
        => LET ds == ret.args.ds
               item == Val(ret.out)
           IN /\ DOMAIN item = {"sample", "label"}
              /\ (ds.Y = None) => item.label = [scalar |-> TRUE, v |-> <<-1>>]
              /\ (ds.Y # None /\ Val(ds.Y).ndim = 1)
                    => /\ item.label.scalar
                       /\ item.label.v = Val(ds.Y).data[ItemPosition]
              /\ (ds.Y # None /\ Val(ds.Y).ndim = 2)
                    => /\ ~item.label.scalar
                       /\ item.label.v = Val(ds.Y).data[ItemPosition]

\* The second item of an adapter with rows of labels: its own row, which is
\* not the row of the first.
C22_Witness ==
    /\ ItemCall /\ ret.status = "ok"
    /\ ret.args.i = IntIndex(1)
    /\ ret.args.ds.Y # None
    /\ Val(ret.args.ds.Y).ndim = 2
    /\ Val(ret.out).label.v = <<0, 1>>
    /\ Val(ret.args.ds.Y).data[1] = <<1, 0>>

\* C23: an index that is not an integer is refused with an error and no item
\* is returned; an integer i with 0 <= i < len returns row i of the wrapped
\* data (transformed if a transform is held, in single precision), and len
\* is the number of rows of the wrapped data.
C23_IntegerIndexing ==
    /\ (ItemCall /\ ret.args.i.type # "int")
          => /\ ret.status = "ValueError: only integer indexing"
             /\ ret.out = None
    /\ (ItemCall /\ ret.args.i.type = "int"
           /\ ret.args.i.value \in 0..(Len(ret.args.ds.X) - 1))
          => LET ds == ret.args.ds
                 row == apply_transform(ds.transform, ds.X[ret.args.i.value + 1])
             IN /\ ret.status = "ok"
                /\ Val(ret.out).sample = [k \in 1..Len(row) |-> float32(row[k])]
    /\ (ret.op = "__len__")
          => /\ ret.status = "ok"
             /\ Val(ret.out) = Cardinality(DOMAIN ret.args.ds.X)

\* The index 1.0 on an adapter of two rows.
C23_Witness ==
    /\ ItemCall
    /\ ret.args.i = [type |-> "float", value |-> 1]
    /\ Len(ret.args.ds.X) = 2
    /\ ret.status = "ValueError: only integer indexing"
    /\ ret.out = None

----------------------------------------------------------------------------
\* The end of a fit call (checked under Spec).

\* The step on which _fit leaves its loop and returns or raises.
FitEndStep == pc = "epoch" /\ pc' = "idle"

\* The missing-input-shape error of load_state.
InputShapeError == "RuntimeError: input_shape"

\* C24: a fit call that runs at least one epoch ends by importing the best
\* snapshot with load_state; when input_shape is None that import raises the
\* missing-input-shape error, so the call fails, and it fails only after
\* every epoch of its range has run, its optimizer steps have been made and
\* the model holds the parameters of the snapshot.
C24_FitEndsWithImport ==
    [][FitEndStep =>
         /\ obs.n >= 1
         /\ obs.n = clf.epochs - Val(entry).start_epoch
         /\ obs.steps = obs.n * NumBatches(clf)
         /\ (clf.input_shape # None) => ret'.status # InputShapeError
         /\ (clf.input_shape = None)
               => /\ ret'.status = InputShapeError
                  /\ clf'.model = Val(best_state_dict).state_dict
                  /\ clf'.start_epoch = Val(best_state_dict).epoch]_vars

\* The same for the calls whose optimizer has the grouping the adapter's
\* bias policy asks for.
C24_ImportUnlessStaleGrouping ==
    [][(FitEndStep /\ OptimizerAgrees(clf)) =>
         /\ obs.n >= 1
         /\ obs.n = clf.epochs - Val(entry).start_epoch
         /\ obs.steps = obs.n * NumBatches(clf)
         /\ (clf.input_shape # None) => ret'.status = "ok"
         /\ (clf.input_shape = None)
               => /\ ret'.status = InputShapeError
                  /\ clf'.model = Val(best_state_dict).state_dict
                  /\ clf'.start_epoch = Val(best_state_dict).epoch]_vars

\* A fit of two epochs on an adapter without input shape has raised; the
\* adapter holds trained parameters and the epoch count of a finished range.
C24_Witness ==
    /\ FitReturned
    /\ ret.status = InputShapeError
    /\ FitObs.n = 2
    /\ FitObs.steps >= 2
    /\ clf.input_shape = None
    /\ clf.model # FitEntry.model
    /\ clf.start_epoch = 2

\* A fit call that ran at least one epoch has returned normally.
FitDone == FitReturned /\ ret.status = "ok" /\ FitObs.n >= 1

\* No epoch of the call was stored: store_best_params was set and every
\* epoch stayed below the best accuracy the call was entered with.
NothingStored ==
    ret.args.store_best_params /\ Val(FitObs.max) < FitEntry.best_acc

\* C25: after a fit call that ran at least one epoch has returned,
\* start_epoch is the index of the restored epoch plus one: epochs when
\* store_best_params is False, b + 1 when the best epoch b was stored with
\* store_best_params True (so that a warm fit that follows runs the epochs
\* b + 1 .. epochs - 1), and the entry value plus one, with the model
\* parameters the call was entered with, when no epoch was stored.
C25_StartEpochAfterFit ==
    /\ FitDone
          => /\ clf.start_epoch = Val(ret.out).best_epoch + 1
             /\ Val(ret.out).best_epoch \in FitEntry.start_epoch..(clf.epochs - 1)
             /\ ~ret.args.store_best_params => clf.start_epoch = clf.epochs
             /\ NothingStored
                   => /\ clf.start_epoch = FitEntry.start_epoch + 1
                      /\ clf.model = FitEntry.model
    /\ (FitReturned /\ ret.status = "ok" /\ ret.args.warm_start)
          => FitObs.n = Max(0, FitEntry.epochs - FitEntry.start_epoch)

\* A warm fit entered at epoch 1 of 2 with best accuracy 1 (what a fit whose
\* first epoch was the best leaves) has run epoch 1 again, below the best:
\* nothing was stored, the counter is 2, the parameters are those at entry.
C25_Witness ==
    /\ FitDone
    /\ ret.args.warm_start
    /\ NothingStored
    /\ FitEntry.start_epoch = 1
    /\ FitEntry.epochs = 2
    /\ FitObs.n = 1
    /\ FitObs.steps >= 1
    /\ clf.start_epoch = 2
    /\ clf.model = FitEntry.model

----------------------------------------------------------------------------
\* A load that fails (checked under SpecLoad).

\* C26: load_state is not atomic: when it raises the missing-input-shape
\* error, the adapter already has the record's hyperparameters (where the
\* record carries them), optimizer state, epoch count, accuracies and model
\* parameters in place of its own.
C26_FailedLoadHasReplaced ==
    [][(LoadStep /\ ret'.status = InputShapeError) =>
        LET new == Val(clf2')
        IN /\ Restored(new, clf)
           /\ new.optimizer.state = clf.optimizer.state
           /\ ("defaults" \notin ret'.args.without)
                 => /\ new.learning_rate = clf.optimizer.defaults.lr
                    /\ new.momentum = clf.optimizer.defaults.momentum
                    /\ new.weight_decay = clf.optimizer.defaults.weight_decay
                    /\ new.optimizer.defaults = clf.optimizer.defaults
           /\ ("regularize_bias" \notin ret'.args.without)
                 => new.regularize_bias = clf.regularize_bias
           /\ new.input_shape = None]_vars

\* A second adapter built with weight decay 1 has failed to load the record
\* of a trained adapter with weight decay 0: it holds the record's weight
\* decay, optimizer state, epoch count and parameters.
C26_Witness ==
    /\ ret.op = "load_state"
    /\ ret.status = InputShapeError
    /\ ret.args.without = {}
    /\ clf2 # None
    /\ clf.start_epoch > 0
    /\ clf.optimizer.state = 1
    /\ clf.weight_decay = 0
    /\ Val(clf2).weight_decay = 0
    /\ Val(clf2).optimizer.state = 1
    /\ Val(clf2).start_epoch = clf.start_epoch + 1
    /\ Val(clf2).model = clf.model

----------------------------------------------------------------------------
\* Which epochs are stored (checked under Spec).

\* The steps on which the loop ends an epoch and begins one.
EpochEndStep == pc = "batch" /\ pc' = "epoch"
EpochBeginStep == pc = "epoch" /\ pc' = "batch"

\* C27: with store_best_params True, an epoch whose accuracy is strictly
\* lower than best_acc is not stored: best_acc and the best snapshot stay as
\* they were, the model keeps the parameters the epoch trained, and the next
\* epoch starts from them; nothing is restored before the range is over.
C27_LowerEpochNotStored ==
    [][((EpochEndStep /\ store_best_params /\ clf'.acc < clf.best_acc)
             => (/\ clf'.best_acc = clf.best_acc
                 /\ best_epoch' = best_epoch
                 /\ best_state_dict' = best_state_dict
                 /\ clf'.model = clf.model
                 /\ clf'.optimizer = clf.optimizer
                 /\ clf'.start_epoch = clf.start_epoch))
       /\ (EpochBeginStep
             => (/\ clf'.model = clf.model
                 /\ clf'.optimizer.state = clf.optimizer.state
                 /\ best_state_dict' = best_state_dict))]_vars

\* The second epoch of a call has ended below the best accuracy: the best
\* epoch is still the first and the model holds other parameters than the
\* snapshot.
C27_Witness ==
    /\ pc = "epoch"
    /\ store_best_params
    /\ obs.n = 2
    /\ clf.acc < clf.best_acc
    /\ best_epoch < clf.start_epoch
    /\ clf.model # Val(best_state_dict).state_dict

\* C28: with store_best_params False every epoch is stored, so when the
\* call is over the model holds the parameters of the last epoch and acc and
\* best_acc are both the accuracy of the last epoch, even if an earlier
\* epoch scored higher.
C28_LatestEpochKept ==
    [][((EpochEndStep /\ ~store_best_params)
             => (/\ best_epoch' = clf.start_epoch
                 /\ Val(best_state_dict').state_dict = clf.model
                 /\ Val(best_state_dict').acc = clf'.acc
                 /\ Val(best_state_dict').best_acc = clf'.acc
                 /\ clf'.best_acc = clf'.acc))
       /\ ((FitEndStep /\ ~store_best_params)
             => (/\ clf'.model = clf.model
                 /\ clf'.acc = clf.acc
                 /\ clf'.best_acc = clf.acc
                 /\ best_epoch = clf.epochs - 1))]_vars

\* A fit of two epochs with store_best_params False has returned; the first
\* epoch scored higher than the second and both accuracies are the second's.
C28_Witness ==
    /\ FitDone
    /\ ~ret.args.store_best_params
    /\ FitObs.n = 2
    /\ Val(FitObs.max) > clf.acc
    /\ clf.best_acc = clf.acc
    /\ clf.model # Val(FitObs.first)
    /\ clf.start_epoch = clf.epochs

----------------------------------------------------------------------------
\* The work of one epoch (checked under Spec).

\* ceil(n / b)
Ceil(n, b) == CHOOSE k \in 0..n : k * b >= n /\ (k - 1) * b < n

\* C29: in every epoch the learning-rate schedule is advanced once, before
\* the first batch; every batch is computed in the order model output, loss,
\* zero_grad, backward, one optimizer step; a fit call that runs E epochs
\* over N samples with batch size B makes exactly E * ceil(N / B) optimizer
\* steps.
C29_StepsPerFit ==
    /\ (pc = "batch")
          => /\ obs.sched = obs.n + 1
             /\ obs.steps = obs.n * Ceil(NTrain, clf.batch_size) + batch_idx
    /\ (pc = "epoch") => /\ obs.sched = obs.n
                         /\ obs.steps = obs.n * Ceil(NTrain, clf.batch_size)
    /\ (pc # "idle" /\ obs.steps > 0)
          => obs.ops = <<"forward", "loss", "zero_grad", "backward", "step">>
    /\ FitReturned
          => /\ FitObs.sched = FitObs.n
             /\ FitObs.steps = FitObs.n * Ceil(NTrain, FitEntry.batch_size)

\* Two epochs in batches of a size that does not divide the number of
\* samples: the short last batch of each epoch has its optimizer step too.
C29_Witness ==
    /\ FitDone
    /\ NTrain % FitEntry.batch_size # 0
    /\ FitObs.n = 2
    /\ FitObs.sched = 2
    /\ FitObs.steps = 2 * ((NTrain \div FitEntry.batch_size) + 1)

----------------------------------------------------------------------------
\* A record loaded back into its own adapter (checked under SpecReload).

\* What the round trip is said to leave alone.
RoundTripKeeps(self) ==
    [model |-> self.model,
     hyperparameters |-> Hyperparameters(self),
     regularize_bias |-> self.regularize_bias,
     optimizer |-> OptimizerCore(self.optimizer),
     acc |-> self.acc, best_acc |-> self.best_acc,
     input_shape |-> self.input_shape]

\* C30: on an adapter that knows its input shape, k calls of
\* load_state(state_dict()) in a row leave the model parameters, the
\* optimizer's hyperparameters and state, acc, best_acc, input_shape and the
\* predictions as they were, add k to start_epoch and change nothing else.
C30_RoundTripOnSelf ==
    (ret.op = "round_trip")
        => /\ ret.status = "ok"
           /\ clf.start_epoch = ret.args.from.start_epoch + ret.args.k
           /\ RoundTripKeeps(clf) = RoundTripKeeps(ret.args.from)
           /\ SamePredictions(clf, ret.args.from)
           /\ clf = [ret.args.from EXCEPT !.start_epoch = @ + ret.args.k]

\* The same for adapters on which a fit or a load has completed and whose
\* optimizer has the grouping their bias policy asks for; the feature count
\* aside.
C30_RoundTripOfTrained ==
    (ret.op = "round_trip" /\ ~is_clear(ret.args.from)
       /\ OptimizerAgrees(ret.args.from))
        => /\ ret.status = "ok"
           /\ clf.start_epoch = ret.args.from.start_epoch + ret.args.k
           /\ RoundTripKeeps(clf) = RoundTripKeeps(ret.args.from)
           /\ SamePredictions(clf, ret.args.from)
           /\ [clf EXCEPT !.n_features = None] =
                 [ret.args.from EXCEPT !.start_epoch = @ + ret.args.k,
                                       !.n_features = None]

\* Two round trips in a row on a trained adapter.
C30_Witness ==
    /\ ret.op = "round_trip"
    /\ ret.status = "ok"
    /\ ret.args.k = 2
    /\ ret.args.from.start_epoch = 2
    /\ ret.args.from.optimizer.state = 1
    /\ clf.start_epoch = 4

----------------------------------------------------------------------------
\* The bias policy of a record (checked under SpecLoad).

\* The parameters each group of an optimizer holds.
GroupParams(groups) == [g \in 1..Len(groups) |-> groups[g].params]

\* The groups the adapter's weight decay and bias policy ask for.
GroupsAskedFor(self) ==
    GroupParams(IF self.weight_decay # 0 /\ ~self.regularize_bias
                  THEN add_weight_decay(self) ELSE parameters(self))

\* C31: when the record carries a regularize_bias flag that differs from
\* the adapter's, load_state takes the flag and rebuilds the optimizer with
\* the grouping the new flag asks for before the record's optimizer state is
\* loaded: whether the load then succeeds or is refused, the optimizer the
\* adapter is left with has the new grouping, and the record's state is in
\* it only if the load was not refused.
C31_RebuiltBeforeStateLoaded ==
    [][(LoadStep /\ "regularize_bias" \notin ret'.args.without
          /\ clf.regularize_bias # Val(clf2).regularize_bias) =>
        LET new == Val(clf2')
        IN /\ new.regularize_bias = clf.regularize_bias
           /\ GroupParams(new.optimizer.param_groups) = GroupsAskedFor(new)
           /\ (ret'.status = "ValueError: parameter groups")
                 => new.optimizer.state = 0
           /\ (ret'.status # "ValueError: parameter groups")
                 => /\ new.optimizer.state = clf.optimizer.state
                    /\ GroupParams(clf.optimizer.param_groups) = GroupsAskedFor(new)]_vars

\* An adapter built with regularized biases has loaded the record of a
\* trained adapter that excludes them: two groups, the record's state.
C31_Witness ==
    /\ ret.op = "load_state"
    /\ ret.status = "ok"
    /\ ret.args.without = {}
    /\ clf2 # None
    /\ ~clf.regularize_bias
    /\ clf.weight_decay = 1
    /\ clf.optimizer.state = 1
    /\ ~Val(clf2).regularize_bias
    /\ Len(Val(clf2).optimizer.param_groups) = 2
    /\ Val(clf2).optimizer.state = 1

----------------------------------------------------------------------------
\* Copies (checked under SpecCopy).

\* What the copy is said to have in common with the original.
CopyKeeps(self) ==
    [start_epoch |-> self.start_epoch, acc |-> self.acc, best_acc |-> self.best_acc,
     classes |-> self.classes, n_features |-> self.n_features, model |-> self.model]

\* The copy was built and has the state of the original, in objects of its
\* own, and the original is as it was.
CopyMade ==
    /\ ret.status = "ok"
    /\ clf2 # None
    /\ CopyKeeps(Val(clf2)) = CopyKeeps(ret.args.from)
    /\ Val(clf2).own_handles
    /\ clf = ret.args.from

\* C32: deepcopy of an adapter that knows its input shape gives a new
\* adapter with the start_epoch, acc, best_acc, classes, n_features and
\* model parameters of the original, in a model and an optimizer of its own;
\* the original keeps its own and is unchanged, and a later change of the
\* copy leaves the original alone.
C32_DeepCopy ==
    /\ (ret.op = "deepcopy" /\ ret.args.from.input_shape # None) => CopyMade
    /\ (ret.op = "change_copy") => clf = ret.args.original

\* The same for the adapters whose optimizer has the grouping their bias
\* policy asks for.
C32_DeepCopyUnlessStaleGrouping ==
    /\ (ret.op = "deepcopy" /\ ret.args.from.input_shape # None
          /\ OptimizerAgrees(ret.args.from)) => CopyMade
    /\ (ret.op = "deepcopy" /\ ret.status # "ok") => (clf2 = None /\ clf = ret.args.from)
    /\ (ret.op = "change_copy") => clf = ret.args.original

\* The copy of a trained adapter has been given other parameters; the
\* original has the trained ones and its epoch count.
C32_Witness ==
    /\ ret.op = "change_copy"
    /\ clf2 # None
    /\ clf.start_epoch = 2
    /\ Val(clf2).start_epoch = 2
    /\ clf.optimizer.state = 1
    /\ Val(clf2).model # clf.model
    /\ clf = ret.args.original

----------------------------------------------------------------------------
\* The softmax in the gradient (checked under SpecQuery).

----------------------------------------------------------------------------
\* The two accuracies (checked under SpecCopy).

\* C34: in every state reached from a new adapter by fit calls, round trips
\* of its record and copies, acc <= best_acc at the end of every epoch and
\* between operations, on the adapter and on its copy; after a fit with
\* warm_start False that ran at least one epoch, acc = best_acc.
C34_AccBelowBest ==
    /\ (pc \in {"idle", "epoch"}) => clf.acc <= clf.best_acc
    /\ (clf2 # None) => Val(clf2).acc <= Val(clf2).best_acc
    /\ (FitReturned /\ ~ret.args.warm_start /\ FitObs.n >= 1)
          => clf.acc = clf.best_acc

\* A cold fit of two epochs whose second epoch scored below the first has
\* returned with both accuracies at 1.
C34_Witness ==
    /\ FitDone
    /\ ~ret.args.warm_start
    /\ ret.args.store_best_params
    /\ FitObs.n = 2
    /\ Val(ret.out).best_epoch = 0
    /\ clf.acc = 1
    /\ clf.best_acc = 1

----------------------------------------------------------------------------
\* Classes and feature count after a load (checked under SpecCopy).

\* The width of the model's output: the entries of the bias of its last module.
OutputWidth(self) == Cardinality(DOMAIN self.model[Len(self.model)].bias)

\* The classes and the feature count are those load_state computes.
FromLoad(self) ==
    /\ self.classes = Some(0..(OutputWidth(self) - 1))
    /\ self.n_features =
          Some(Sum([k \in 1..Len(Val(self.input_shape)) |-> Val(self.input_shape)[k]]))

\* C35: every load_state that succeeds, the one that ends a fit included,
\* sets the classes to 0..K-1, K the width of the model's output, and the
\* feature count to the sum of the dimensions of input_shape, in place of
\* the classes and the feature count a fit with warm_start False took from
\* the dataset (which a fit that runs no epoch, and so loads nothing, keeps).
C35_ClassesFromLoad ==
    /\ (FitReturned /\ ret.status = "ok" /\ FitObs.n >= 1) => FromLoad(clf)
    /\ (ret.op = "round_trip" /\ ret.status = "ok") => FromLoad(clf)
    /\ (FitReturned /\ ret.status = "ok" /\ FitObs.n = 0 /\ ~ret.args.warm_start)
          => /\ clf.classes = Some(dataset.classes)
             /\ clf.n_features = Some(dataset.num_features)

\* A cold fit has returned: the feature count is 1 + 2 for the input shape
\* (1, 2), not the 2 features of the dataset.
C35_Witness ==
    /\ FitDone
    /\ ~ret.args.warm_start
    /\ clf.input_shape = Some(<<1, 2>>)
    /\ clf.n_features = Some(3)
    /\ dataset.num_features = 2
    /\ clf.classes = Some({0, 1})

----------------------------------------------------------------------------
\* The solver state of a COptimizer is the cleared one.
SolverCleared(s) ==
    /\ s.x_opt = None /\ s.f_opt = None /\ s.f_seq = None /\ s.x_seq = None
    /\ s.f_eval = 0 /\ s.grad_eval = 0

\* A step that assigns to f, constr, bounds or discrete.
AssignStep == solver # None /\ ret'.op \in {"f", "constr", "bounds", "discrete"}

\* The assignments the setters reject with a type error.
NotAssignable(op, value) ==
    \/ op = "f" /\ Val(value).class # "CFunction"
    \/ /\ op = "constr"
       /\ value # None
       /\ ~(Val(value).class = "CConstraint" /\ Val(value).class_type \in {"l1", "l2"})
    \/ /\ op = "bounds"
       /\ value # None
       /\ ~(Val(value).class = "CConstraint" /\ Val(value).class_type = "box")

\* The object holds the value assigned.
Holds(s, op, value) ==
    /\ op = "f" => s.f = value /\ s.fun = Some(Fun(Val(value), 1))
    /\ op = "constr" => s.constr = value
    /\ op = "bounds" => s.bounds = value
    /\ op = "discrete" => s.discrete = Some(Val(value) # 0)

\* C36: every assignment to f, constr, bounds or discrete of a COptimizer
\* that is accepted stores the value and clears the solver (x_opt, f_opt,
\* f_seq, x_seq None; f_eval and grad_eval 0); an assignment rejected with
\* a type error (f not a CFunction, constr not l1 or l2, bounds not box)
\* leaves the object, values and solver state, as it was.
C36_AssignmentClears ==
    [][AssignStep =>
         /\ (ret'.status = "ok") = ~NotAssignable(ret'.op, ret'.args.value)
         /\ (ret'.status = "ok" =>
                /\ SolverCleared(Val(solver'))
                /\ Holds(Val(solver'), ret'.op, ret'.args.value))
         /\ (ret'.status # "ok" => solver' = solver)]_vars

\* An assignment to constr made on a solver that had run has been accepted,
\* and the solver state is gone.
C36_Witness ==
    /\ solver # None
    /\ ret.op = "constr"
    /\ ret.status = "ok"
    /\ ret.args.value # None
    /\ Val(solver).constr = ret.args.value
    /\ Val(solver).f_eval = 0
    /\ Val(solver).x_opt = None

\* A step that runs maximize, or minimize.
MaximizeStep == solver # None /\ ret'.op = "maximize"
MinimizeStep == solver # None /\ ret'.op = "minimize"

\* The values of f (not of its inverse) along the points of x_seq.
ValuesOf_f(s) ==
    [k \in 1..Len(Val(s.x_seq)) |-> fun_value(Val(s.f).name, Val(s.x_seq)[k])]

\* C37: maximize runs minimize on the sign-inverted objective; when
\* minimize returns, f_seq is negated (it holds the values of f itself) and
\* the internal function is f again, so that a later minimize works on f;
\* when minimize raises, the internal function is left as the sign-inverted
\* objective.
C37_MaximizeRestores ==
    [][/\ (MaximizeStep /\ ret'.status = "ok" =>
             /\ Val(solver').fun = Some(Fun(Val(Val(solver).f), 1))
             /\ Val(solver').f_seq = Some(ValuesOf_f(Val(solver')))
             /\ Val(solver').x_opt = ret'.out)
       /\ (MaximizeStep /\ ret'.status # "ok" =>
             Val(solver').fun = Some(Fun(Val(Val(solver).f), -1)))
       /\ (MinimizeStep /\ ret'.status = "ok" /\ Val(Val(solver).fun).sign = 1 =>
             Val(solver').f_seq = Some(ValuesOf_f(Val(solver'))))]_vars

\* maximize has returned a point where f is not zero: f_seq holds the value
\* of f there, and the internal function is f.
C37_Witness ==
    /\ solver # None
    /\ ret.op = "maximize"
    /\ ret.status = "ok"
    /\ Val(Val(solver).fun).sign = 1
    /\ Val(Val(solver).f_seq)[2] = fun_value(Val(Val(solver).f).name, Val(ret.out))
    /\ Val(Val(solver).f_seq)[2] # 0

\* maximize has raised, and the internal function is the inverted one.
C37_WitnessRaised ==
    /\ solver # None
    /\ ret.op = "maximize"
    /\ ret.status # "ok"
    /\ Val(Val(solver).fun).sign = 0 - 1
====
